---------------------------- MODULE Spec2Model ----------------------------
(***************************************************************************)
(* Model of invoice-generator: the monetary model (model.py), the JSON     *)
(* export/import (backend.py, io.py), the configuration store (config.py)  *)
(* and the PDF pagination (backend.py).                                    *)
(*                                                                         *)
(* Numbers.  The program computes on binary floats.  The model computes on *)
(* exact fixed-point integers:                                             *)
(*   quantity      in tenths            (Python 1.2   is 12)               *)
(*   unit_price    in cents             (Python 0.08  is 8)                *)
(*   discount_pct, tax_pct in whole percents                               *)
(*   amounts (prices, totals, tax) in units of 1e-5, so that one cent is   *)
(*   Cent = 1000 units and every product below is an exact integer.        *)
(* A float differs from the exact value by a relative error near 1e-16, so *)
(* round(x, 2) of the float and of the exact value agree except when the   *)
(* exact value lies exactly on half a cent, where the representation error *)
(* of the float decides.  Documents with such a value are left out of the  *)
(* inputs (NoTie).                                                         *)
(***************************************************************************)
EXTENDS Integers, Sequences, FiniteSets, TLC

VARIABLES
    doc,        \* the Document in memory
    totals,     \* what subtotal_ht(), total_tva(), net_to_pay(), total_ht() returned
    file,       \* the JSON file on disk: Absent or a JSON value
    parsed,     \* what parse_quote_json returned or raised
    pc,         \* position of the export/import run
    default_config, \* the module-level dict DEFAULT_CONFIG of config.py
    files,      \* the configuration file of every store: Absent or its content
    ret,        \* what the last call of next_number returned
    calls,      \* history: the calls of next_number so far, per store and doc type
    writes,     \* history: the number of writes to a configuration store so far
    ppc,        \* position of export_pdf
    y,          \* the vertical cursor of export_pdf
    page_num,   \* the page being drawn
    row,        \* the table rows emitted so far
    note,       \* the wrapped notes lines emitted so far
    canvas,     \* the drawing calls made so far, in order
    logo_loadable \* whether the image at the logo path can be loaded and drawn

docvars == <<doc, totals, file, parsed, pc>>

cfgvars == <<default_config, files, ret, calls, writes>>

pdfvars == <<ppc, y, page_num, row, note, canvas, logo_loadable>>

vars == <<docvars, cfgvars, pdfvars>>

(***************************************************************************)
(* Bounds of the model.                                                    *)
(***************************************************************************)
MaxLines == 2

MaxEntries == 3

MaxCalls == 5

MaxGenerated == 3

MaxWrites == 3

SmallRows == 1

MaxRows == 46

Cent == 1000

QuantityUnit == 10

(***************************************************************************)
(* Generic helpers.                                                        *)
(***************************************************************************)
Max(a, b) == IF a >= b THEN a ELSE b

Min(a, b) == IF a <= b THEN a ELSE b

SumSeq(s) ==
    LET partial[i \in 0..Len(s)] == IF i = 0 THEN 0 ELSE partial[i - 1] + s[i]
    IN  partial[Len(s)]

SeqsUpTo(S, n) == UNION {[1..k -> S] : k \in 0..n}

(***************************************************************************)
(* round(x, 2) on a non-negative amount: to the nearest cent, a value      *)
(* exactly on half a cent going to the even cent (Python's round).         *)
(***************************************************************************)
Round2(x) ==
    LET q == x \div Cent
        r == x % Cent
    IN  IF 2 * r < Cent THEN q * Cent
        ELSE IF 2 * r > Cent THEN (q + 1) * Cent
        ELSE IF q % 2 = 0 THEN q * Cent ELSE (q + 1) * Cent

(***************************************************************************)
(* LineItem.total_ht, model.py 72-77.                                      *)
(*   price = quantity * unit_price                                         *)
(*   if discount_pct: price *= max(0.0, 1.0 - discount_pct / 100.0)        *)
(*   return round(price, 2)                                                *)
(* quantity (tenths) * unit_price (cents) is in units of 1e-3; times 100   *)
(* it is in units of 1e-5; the factor is max(0, 100 - discount_pct) / 100. *)
(***************************************************************************)
RawPrice(li) == li.quantity * li.unit_price * 100

\* variant of DiscountedPrice that applies the discount as given, without the floor
DiscountedPrice_as_given(li) ==
    IF li.discount_pct # 0
    THEN li.quantity * li.unit_price * (100 - li.discount_pct)
    ELSE RawPrice(li)

DiscountedPrice(li) ==
    IF li.discount_pct # 0
    THEN li.quantity * li.unit_price * Max(0, 100 - li.discount_pct)
    ELSE RawPrice(li)

\* variant of total_ht that cuts the price to whole cents instead of rounding it
total_ht_truncating(li) == (DiscountedPrice(li) \div Cent) * Cent

total_ht(li) == Round2(DiscountedPrice(li))

(***************************************************************************)
(* _sum, model.py 80-81, and the Document totals, model.py 101-111.        *)
(* A tax term total_ht * max(0.0, tax_pct) / 100.0 is exact: total_ht is a *)
(* whole number of cents, so the division by 100 is done first.            *)
(***************************************************************************)
TaxTerm(li) == (total_ht(li) \div 100) * Max(0, li.tax_pct)

_sum(values) == Round2(SumSeq(values))

\* variant of subtotal_ht that sums the unrounded prices and rounds once
subtotal_ht_round_once(d) ==
    Round2(SumSeq([i \in 1..Len(d.lines) |-> DiscountedPrice(d.lines[i])]))

subtotal_ht(d) == Round2(SumSeq([i \in 1..Len(d.lines) |-> total_ht(d.lines[i])]))

\* variant of total_tva that rounds every tax term before the summation
total_tva_rounded_terms(d) ==
    _sum([i \in 1..Len(d.lines) |-> Round2(TaxTerm(d.lines[i]))])

total_tva(d) == _sum([i \in 1..Len(d.lines) |-> TaxTerm(d.lines[i])])

\* variant of net_to_pay that leaves the tax out
net_to_pay_without_tax(d) == Round2(subtotal_ht(d))

net_to_pay(d) == Round2(subtotal_ht(d) + total_tva(d))

(***************************************************************************)
(* Text of numbers and dates.                                              *)
(***************************************************************************)
DigitChar == <<"0", "1", "2", "3", "4", "5", "6", "7", "8", "9">>

RECURSIVE IntToStr(_)
IntToStr(n) ==
    IF n < 10 THEN DigitChar[n + 1]
    ELSE IntToStr(n \div 10) \o DigitChar[(n % 10) + 1]

RECURSIVE ZeroPad(_, _)
ZeroPad(s, width) == IF Len(s) >= width THEN s ELSE ZeroPad("0" \o s, width)

\* date.isoformat(): YYYY-MM-DD
isoformat(d) ==
    ZeroPad(IntToStr(d.year), 4) \o "-" \o ZeroPad(IntToStr(d.month), 2)
        \o "-" \o ZeroPad(IntToStr(d.day), 2)

(***************************************************************************)
(* Python and JSON values.  An Optional[str] or Optional[float] field is   *)
(* <<>> for None and <<v>> for the value v.  A value of a dict built by    *)
(* to_dict, and a value of a JSON text, is a tagged tree: the file on disk *)
(* is modelled as the tree its text denotes (json.dump with                *)
(* ensure_ascii=False writes str, finite number, None, list and dict so    *)
(* that json.load reads the same tree back).  A number inside a line entry *)
(* is held in the unit of its field (see FieldUnit), elsewhere in units.   *)
(***************************************************************************)
JNull == [t |-> "null"]

JBool(b) == [t |-> "bool", b |-> b]

JNum(n) == [t |-> "num", n |-> n]

JStr(s) == [t |-> "str", s |-> s]

JArr(a) == [t |-> "arr", a |-> a]

JObj(o) == [t |-> "obj", o |-> o]

JOptStr(opt) == IF opt = <<>> THEN JNull ELSE JStr(opt[1])

JOptNum(opt) == IF opt = <<>> THEN JNull ELSE JNum(opt[1])

Absent == [t |-> "absent"]

Garbage == [t |-> "garbage"]

(***************************************************************************)
(* Document.to_dict, model.py 113-141, with dataclasses.asdict for the     *)
(* issuer and the customer.                                                *)
(***************************************************************************)
asdict_company(c) ==
    JObj([name |-> JStr(c.name),
          logo_path |-> JOptStr(c.logo_path),
          logo_max_width |-> JOptNum(c.logo_max_width),
          logo_max_height |-> JOptNum(c.logo_max_height),
          logo_margin_right |-> JOptNum(c.logo_margin_right),
          address |-> JOptStr(c.address),
          email |-> JOptStr(c.email),
          phone |-> JOptStr(c.phone),
          siret |-> JOptStr(c.siret)])

asdict_party(p) ==
    JObj([name |-> JStr(p.name),
          address |-> JOptStr(p.address),
          email |-> JOptStr(p.email),
          phone |-> JOptStr(p.phone),
          siret |-> JOptStr(p.siret)])

\* variant of line_to_dict that derives total_ht again, from quantity and unit price
line_to_dict_raw_total(li) ==
    JObj([item_key |-> JStr(li.item_key),
          description |-> JStr(li.description),
          quantity |-> JNum(li.quantity),
          unit_price |-> JNum(li.unit_price),
          discount_pct |-> JNum(li.discount_pct),
          unit |-> JStr(li.unit),
          tax_pct |-> JNum(li.tax_pct),
          total_ht |-> JNum(Round2(RawPrice(li)))])

line_to_dict(li) ==
    JObj([item_key |-> JStr(li.item_key),
          description |-> JStr(li.description),
          quantity |-> JNum(li.quantity),
          unit_price |-> JNum(li.unit_price),
          discount_pct |-> JNum(li.discount_pct),
          unit |-> JStr(li.unit),
          tax_pct |-> JNum(li.tax_pct),
          total_ht |-> JNum(total_ht(li))])

to_dict(d) ==
    JObj([type |-> JStr(d.doc_type),
          number |-> JOptStr(d.number),
          date |-> JStr(isoformat(d.date_)),
          issuer |-> asdict_company(d.issuer),
          customer |-> asdict_party(d.customer),
          lines |-> JArr([i \in 1..Len(d.lines) |-> line_to_dict(d.lines[i])]),
          subtotal_ht |-> JNum(subtotal_ht(d)),
          total_tva |-> JNum(total_tva(d)),
          net_to_pay |-> JNum(net_to_pay(d)),
          subject |-> JOptStr(d.subject),
          validity_end_date |->
              IF d.validity_end_date # <<>>
              THEN JStr(isoformat(d.validity_end_date[1]))
              ELSE JNull])

\* variant of export_json that leaves a file that exists as it is
export_json_keeps_existing(d) == IF file = Absent THEN to_dict(d) ELSE file

(***************************************************************************)
(* export_json, backend.py 142-147: the file holds to_dict(doc).           *)
(***************************************************************************)
export_json(d) == to_dict(d)

(***************************************************************************)
(* Python's coercions as parse_quote_json uses them, io.py 46-50.          *)
(***************************************************************************)
\* bool(v): the truth value that `v or default` tests
Truthy(v) ==
    CASE v.t = "null" -> FALSE
      [] v.t = "bool" -> v.b
      [] v.t = "num" -> v.n # 0
      [] v.t = "str" -> v.s # ""
      [] v.t = "arr" -> v.a # <<>>
      [] v.t = "obj" -> DOMAIN v.o # {}

\* dict.get(key): None when the key is missing
Get(o, key) == IF key \in DOMAIN o THEN o[key] ELSE JNull

\* the strings float() accepts, with their values
NumericStrings == [s \in {"3", "10"} |-> IF s = "3" THEN 3 ELSE 10]

\* the unit a number of a line entry is held in
FieldUnit ==
    [quantity |-> QuantityUnit, unit_price |-> 100, discount_pct |-> 1, tax_pct |-> 1]

\* str(v or ''): the text of a truthy scalar, '' for a falsy value
StrOrEmpty(v) ==
    IF ~Truthy(v) THEN ""
    ELSE CASE v.t = "str" -> v.s
           [] v.t = "num" -> IntToStr(v.n)
           [] v.t = "bool" -> "True"

\* float(v or 0.0) for the field `key`: [ok, v]; ok = FALSE is ValueError or TypeError
FloatOrZero(v, key) ==
    IF ~Truthy(v) THEN [ok |-> TRUE, v |-> 0]
    ELSE CASE v.t = "num" -> [ok |-> TRUE, v |-> v.n]
           [] v.t = "bool" -> [ok |-> TRUE, v |-> FieldUnit[key]]
           [] v.t = "str" ->
                IF v.s \in DOMAIN NumericStrings
                THEN [ok |-> TRUE, v |-> NumericStrings[v.s] * FieldUnit[key]]
                ELSE [ok |-> FALSE, v |-> 0]
           [] v.t \in {"arr", "obj"} -> [ok |-> FALSE, v |-> 0]

(***************************************************************************)
(* parse_quote_json, io.py 20-64.                                          *)
(***************************************************************************)
required_keys == {"item_key", "description", "quantity", "unit_price"}

\* LineItem(item_key, description, quantity, unit_price, discount_pct), io.py 54-62:
\* unit and tax_pct are not passed and take the dataclass defaults '' and 0.0
ParsedLineItem(o) ==
    [item_key |-> StrOrEmpty(Get(o, "item_key")),
     description |-> StrOrEmpty(Get(o, "description")),
     quantity |-> FloatOrZero(Get(o, "quantity"), "quantity").v,
     unit_price |-> FloatOrZero(Get(o, "unit_price"), "unit_price").v,
     discount_pct |-> FloatOrZero(Get(o, "discount_pct"), "discount_pct").v,
     unit |-> "",
     tax_pct |-> 0]

\* variant of CoercionRaises that reads the quantity only
CoercionRaises_quantity_only(o) ==
    ~FloatOrZero(Get(o, "quantity"), "quantity").ok

\* the try block of io.py 45-53 raises
CoercionRaises(o) ==
    \/ ~FloatOrZero(Get(o, "quantity"), "quantity").ok
    \/ ~FloatOrZero(Get(o, "unit_price"), "unit_price").ok
    \/ ~FloatOrZero(Get(o, "discount_pct"), "discount_pct").ok

\* variant of EntryOutcome without the check of the required keys
EntryOutcome_no_key_check(obj) ==
    IF obj.t # "obj" THEN "non-dict"
    ELSE IF CoercionRaises(obj.o) THEN "malformed"
    ELSE "ok"

\* one pass of the loop body, io.py 37-62: "non-dict", "missing keys", "malformed" or "ok"
EntryOutcome(obj) ==
    IF obj.t # "obj" THEN "non-dict"
    ELSE IF ~(required_keys \subseteq DOMAIN obj.o) THEN "missing keys"
    ELSE IF CoercionRaises(obj.o) THEN "malformed"
    ELSE "ok"

\* the loop of io.py 36-62 over the iterated values, from the accumulated result
RECURSIVE ParseEntries(_, _)
ParseEntries(entries, result) ==
    IF entries = <<>> THEN result
    ELSE LET obj == Head(entries)
         IN  IF EntryOutcome(obj) = "ok"
             THEN ParseEntries(Tail(entries), Append(result, ParsedLineItem(obj.o)))
             ELSE ParseEntries(Tail(entries), result)

\* the diagnostics logged by the loop, one per skipped entry, in order
RECURSIVE LoggedEntries(_)
LoggedEntries(entries) ==
    IF entries = <<>> THEN <<>>
    ELSE IF EntryOutcome(Head(entries)) = "ok" THEN LoggedEntries(Tail(entries))
    ELSE <<EntryOutcome(Head(entries))>> \o LoggedEntries(Tail(entries))

\* what `for obj in v` yields: the elements of a list, the characters of a str,
\* the keys of a dict; a number or a bool is not iterable (TypeError)
Iterable(v) == v.t \in {"arr", "str", "obj"}

StrChars(s) == [i \in 1..Len(s) |-> JStr("c")]

Iterate(v) ==
    CASE v.t = "arr" -> v.a
      [] v.t = "str" -> StrChars(v.s)
      [] v.t = "obj" -> [i \in 1..Cardinality(DOMAIN v.o) |-> JStr("k")]

Raised(e) ==
    [status |-> "raised", error |-> e, customer_name |-> "", lines |-> <<>>, log |-> <<>>]

parse_quote_json(f) ==
    IF f = Absent THEN Raised("FileNotFoundError")
    ELSE IF f = Garbage THEN Raised("JSONDecodeError")
    ELSE IF f.t # "obj" THEN Raised("AttributeError")
    ELSE LET data == f.o
             customer == Get(data, "customer")
             customer_name ==
                 IF customer.t = "obj" THEN StrOrEmpty(Get(customer.o, "name")) ELSE ""
             given == IF "lines" \in DOMAIN data THEN data["lines"] ELSE JArr(<<>>)
             lines == IF Truthy(given) THEN given ELSE JArr(<<>>)
         IN  IF ~Iterable(lines) THEN Raised("TypeError")
             ELSE [status |-> "ok", error |-> "", customer_name |-> customer_name,
                   lines |-> ParseEntries(Iterate(lines), <<>>),
                   log |-> LoggedEntries(Iterate(lines))]

(***************************************************************************)
(* The documents of the export/import run.                                 *)
(***************************************************************************)
LineItem(k, d, q, up, disc, u, tax) ==
    [item_key |-> k, description |-> d, quantity |-> q, unit_price |-> up,
     discount_pct |-> disc, unit |-> u, tax_pct |-> tax]

\* the lines of the tests and of the scenarios of the specification, and lines
\* with a negative or large percentage, a fraction of a cent, empty texts
SampleLines ==
    { LineItem("a", "A", 20, 10000, 0, "", 20),
      LineItem("b", "B", 10, 5000, 50, "", 5),
      LineItem("service", "Consulting", 100, 10000, 10, "h", 0),
      LineItem("a", "A", 10, 10000, 0, "", 0),
      LineItem("b", "B", 20, 5000, 50, "", 0),
      LineItem("neg", "Negative", 10, 10000, -50, "", -10),
      LineItem("free", "Over", 10, 10000, 150, "", 20),
      LineItem("tax", "Taxed", 10, 5000, 0, "j", 150),
      LineItem("small", "Small", 10, 8, 0, "kg", 5),
      LineItem("frac", "Fraction", 12, 32, 10, "m", 20),
      LineItem("", "", 0, 0, 0, "", 0) }

\* one line of every combination of these values
Quantities == {0, 10, 12, 20, 100}

UnitPrices == {0, 8, 32, 5000, 10000}

Discounts == {-50, 0, 10, 50, 100, 150}

Taxes == {-10, 0, 5, 20, 150}

GridLines ==
    { LineItem("k", "Grid", q, up, disc, "u", tax) :
        q \in Quantities, up \in UnitPrices, disc \in Discounts, tax \in Taxes }

CustomerNames == {"", "ACME"}

NoCompany ==
    [name |-> "Ma Société", logo_path |-> <<>>, logo_max_width |-> <<60>>,
     logo_max_height |-> <<>>, logo_margin_right |-> <<20>>, address |-> <<>>,
     email |-> <<>>, phone |-> <<>>, siret |-> <<>>]

Party(n) == [name |-> n, address |-> <<>>, email |-> <<>>, phone |-> <<>>, siret |-> <<>>]

Document(customer_name, lines) ==
    [doc_type |-> "quote", issuer |-> NoCompany, customer |-> Party(customer_name),
     lines |-> lines, number |-> <<"D-0001">>,
     date_ |-> [year |-> 2025, month |-> 1, day |-> 31],
     notes |-> <<>>, subject |-> <<>>, validity_end_date |-> <<>>]

\* no amount that round() sees lies exactly on half a cent
NoTie(lines) ==
    /\ \A i \in 1..Len(lines) : DiscountedPrice(lines[i]) % Cent # Cent \div 2
    /\ SumSeq([i \in 1..Len(lines) |-> TaxTerm(lines[i])]) % Cent # Cent \div 2

Documents ==
    { Document(n, ls) : n \in CustomerNames,
                        ls \in {l \in SeqsUpTo(SampleLines, MaxLines) : NoTie(l)} }
    \cup { Document("Grid", <<l>>) : l \in {g \in GridLines : NoTie(<<g>>)} }

(***************************************************************************)
(* The files a user may hand to parse_quote_json: records written by hand, *)
(* with well-formed and malformed entries, and contents that are no record.*)
(***************************************************************************)
HandEntries ==
    { JObj([item_key |-> JStr("ok"), description |-> JStr("OK"),
            quantity |-> JNum(10), unit_price |-> JNum(500)]),
      JObj([item_key |-> JStr("svc"), description |-> JStr("Service"),
            quantity |-> JNum(30), unit_price |-> JNum(8000),
            discount_pct |-> JNum(10), unit |-> JStr("h"), tax_pct |-> JNum(20)]),
      JObj([bad |-> JStr("line")]),
      JObj([item_key |-> JStr("nop"), description |-> JStr("No price"),
            quantity |-> JNum(10)]),
      JNum(7),
      JStr("x"),
      JNull,
      JArr(<<JNum(1)>>),
      JObj([item_key |-> JStr("abc"), description |-> JStr("d"),
            quantity |-> JStr("abc"), unit_price |-> JNum(100)]),
      JObj([item_key |-> JNum(0), description |-> JNull,
            quantity |-> JStr("3"), unit_price |-> JBool(TRUE)]),
      JObj([item_key |-> JStr("dsc"), description |-> JStr("d"),
            quantity |-> JNull, unit_price |-> JNum(250),
            discount_pct |-> JArr(<<JNum(1)>>)]),
      JObj([item_key |-> JStr("upx"), description |-> JStr("d"),
            quantity |-> JNum(10), unit_price |-> JStr("1,5")]) }

HandLines ==
    { JArr(a) : a \in SeqsUpTo(HandEntries, MaxEntries) }
    \cup { JNull, JNum(0), JNum(5), JBool(TRUE), JStr("ab"), JObj([k |-> JNum(1)]) }

HandCustomers ==
    { JObj([name |-> JStr("Bar")]), JObj([name |-> JNum(5)]), JObj([other |-> JNull]),
      JStr("x"), JNull }

\* every customer with the lines of the test, every lines value with its customer,
\* a record without either key, a text that is no JSON, a JSON text that is no record
HandFiles ==
    { JObj([customer |-> c, lines |-> JArr(<<l>>)]) :
        c \in HandCustomers, l \in {e \in HandEntries : e.t = "obj"} }
    \cup { JObj([customer |-> JObj([name |-> JStr("Bar")]), lines |-> l]) : l \in HandLines }
    \cup { JObj([customer |-> JObj([name |-> JStr("Foo")])]),
           JObj([lines |-> JArr(<<>>)]),
           Garbage, JArr(<<>>) }

(***************************************************************************)
(* The export/import run: a document in memory (no file yet), or a file    *)
(* written by hand; then the totals, export_json and parse_quote_json.     *)
(***************************************************************************)
\* DEFAULT_CONFIG, config.py 15-35
DEFAULT_CONFIG ==
    [company |-> NoCompany,
     counters |-> [quote |-> 0, invoice |-> 0],
     items |-> << [key |-> "service", label |-> "Service", unit_price |-> 8000],
                  [key |-> "product", label |-> "Produit", unit_price |-> 5000] >>]

\* the configuration files of the run, none of them written yet
Stores == {"a.json", "b.json"}

DocTypes == {"quote", "invoice"}

NoFiles == [s \in Stores |-> Absent]

NoCalls == [s \in Stores |-> [t \in DocTypes |-> 0]]

Init ==
    /\ \/ doc \in Documents /\ file = Absent
       \/ doc = Document("", <<>>) /\ file \in HandFiles
    /\ totals = <<>>
    /\ parsed = <<>>
    /\ pc = "start"
    /\ default_config = DEFAULT_CONFIG
    /\ files = NoFiles
    /\ ret = <<>>
    /\ calls = NoCalls
    /\ writes = 0
    /\ ppc = "idle"
    /\ y = 0
    /\ page_num = 0
    /\ row = 0
    /\ note = 0
    /\ canvas = <<>>
    /\ logo_loadable = FALSE

\* the accessors of model.py 72-111, called on the document
ComputeTotals ==
    /\ pc = "start"
    /\ totals = <<>>
    /\ totals' = << [lines |-> [i \in 1..Len(doc.lines) |-> total_ht(doc.lines[i])],
                     subtotal_ht |-> subtotal_ht(doc),
                     total_tva |-> total_tva(doc),
                     net_to_pay |-> net_to_pay(doc)] >>
    /\ UNCHANGED <<doc, file, parsed, pc>>
    /\ UNCHANGED <<cfgvars, pdfvars>>

\* export_json(doc, path), backend.py 142-147, a first and a second time
ExportJson ==
    /\ pc \in {"start", "exported"}
    /\ file' = export_json(doc)
    /\ pc' = IF pc = "start" THEN "exported" ELSE "exported twice"
    /\ UNCHANGED <<doc, totals, parsed>>
    /\ UNCHANGED <<cfgvars, pdfvars>>

\* parse_quote_json(path), io.py 20-64
ParseQuoteJson ==
    /\ pc \in {"start", "exported"}
    /\ parsed' = <<parse_quote_json(file)>>
    /\ pc' = IF pc = "exported" THEN "reimported" ELSE "imported"
    /\ UNCHANGED <<doc, totals, file>>
    /\ UNCHANGED <<cfgvars, pdfvars>>

(***************************************************************************)
(* The configuration store, config.py.  DEFAULT_CONFIG is one dict of the  *)
(* module; load() of a store whose file is missing returns                 *)
(* DEFAULT_CONFIG.copy(), a shallow copy: its 'company', 'counters' and    *)
(* 'items' values are the objects of DEFAULT_CONFIG themselves, so an      *)
(* assignment into one of them is an assignment into DEFAULT_CONFIG.       *)
(***************************************************************************)
\* ConfigManager.load, config.py 44-51
load(s) == IF files[s] = Absent THEN default_config ELSE files[s]

\* the nested dicts of load(s) are those of DEFAULT_CONFIG
SharesDefaults(s) == files[s] = Absent

\* f'{prefix}{num:0{width}d}', config.py 158
FormatNumber(prefix, num, width) == prefix \o ZeroPad(IntToStr(num), width)

\* the arguments next_number is called with
NumberFormats ==
    { [doc_type |-> "quote", prefix |-> "D-", width |-> 4],
      [doc_type |-> "invoice", prefix |-> "F-", width |-> 5],
      [doc_type |-> "invoice", prefix |-> "F-", width |-> 4],
      [doc_type |-> "quote", prefix |-> "", width |-> 1] }

ConfigInit ==
    /\ doc = Document("", <<>>)
    /\ file = Absent
    /\ totals = <<>>
    /\ parsed = <<>>
    /\ pc = "start"
    /\ default_config = DEFAULT_CONFIG
    /\ files = NoFiles
    /\ ret = <<>>
    /\ calls = NoCalls
    /\ writes = 0
    /\ ppc = "idle"
    /\ y = 0
    /\ page_num = 0
    /\ row = 0
    /\ note = 0
    /\ canvas = <<>>
    /\ logo_loadable = FALSE

\* ConfigManager.next_number, config.py 148-158, on the store s
NextNumber(s, f) ==
    LET data == load(s)
        num == data.counters[f.doc_type] + 1
        saved == [data EXCEPT !.counters[f.doc_type] = num]
    IN  /\ calls[s]["quote"] + calls[s]["invoice"] < MaxCalls
        /\ default_config' =
               IF SharesDefaults(s)
               THEN [default_config EXCEPT !.counters[f.doc_type] = num]
               ELSE default_config
        /\ files' = [files EXCEPT ![s] = saved]
        /\ ret' = << [store |-> s, doc_type |-> f.doc_type, prefix |-> f.prefix,
                      width |-> f.width, num |-> num,
                      value |-> FormatNumber(f.prefix, num, f.width)] >>
        /\ calls' = [calls EXCEPT ![s][f.doc_type] = @ + 1]
        /\ writes' = writes + 1
        /\ UNCHANGED <<docvars, pdfvars>>

\* the arguments the set_company_* setters are called with, config.py 66-119
SetterValues ==
    [name |-> {"New Co"},
     logo_path |-> {<<"logo.png">>, <<>>},
     logo_max_width |-> {<<80>>},
     logo_max_height |-> {<<40>>},
     logo_margin_right |-> {<<10>>},
     address |-> {<<"1 rue de la Paix">>},
     email |-> {<<"me@co.example">>},
     phone |-> {<<"+33 1 23 45 67 89">>},
     siret |-> {<<"123 456 789 00010">>}]

CompanyFields == DOMAIN SetterValues

\* ConfigManager.get_company, config.py 62-64
get_company(s) == load(s).company

\* ConfigManager.list_items, config.py 121-123
list_items(s) == load(s).items

\* a setter that builds the company record anew around the field it sets
set_company_anew(data, field, value) ==
    [data EXCEPT !.company = [NoCompany EXCEPT ![field] = value]]

\* data.setdefault('company', {})[field] = value, config.py 69
set_company(data, field, value) == [data EXCEPT !.company[field] = value]

\* ConfigManager.set_company_name .. set_company_siret, config.py 66-119, on the
\* store s
SetCompany(s, field, value) ==
    LET data == load(s)
        saved == set_company(data, field, value)
    IN  /\ writes < MaxWrites
        /\ default_config' =
               IF SharesDefaults(s)
               THEN set_company(default_config, field, value)
               ELSE default_config
        /\ files' = [files EXCEPT ![s] = saved]
        /\ writes' = writes + 1
        /\ UNCHANGED <<ret, calls>>
        /\ UNCHANGED <<docvars, pdfvars>>

\* the loop of upsert_item that always appends
upsert_always_appends(items, key, label, unit_price) ==
    Append(items, [key |-> key, label |-> label, unit_price |-> unit_price])

\* the loop of upsert_item, config.py 128-135: the first item with the key is
\* updated, and without one the item is appended
upsert(items, key, label, unit_price) ==
    IF \E i \in 1..Len(items) : items[i].key = key
    THEN LET i == CHOOSE k \in 1..Len(items) :
                      /\ items[k].key = key
                      /\ \A j \in 1..(k - 1) : items[j].key # key
         IN  [items EXCEPT ![i].label = label, ![i].unit_price = unit_price]
    ELSE Append(items, [key |-> key, label |-> label, unit_price |-> unit_price])

\* the arguments upsert_item is called with: a default key and a new one
ItemKeys == {"service", "extra"}

ItemLabels == {"Conseil", "Audit"}

ItemPrices == {12050}

\* ConfigManager.upsert_item, config.py 125-136, on the store s
UpsertItem(s, key, label, unit_price) ==
    LET data == load(s)
        items == upsert(data.items, key, label, unit_price)
        saved == [data EXCEPT !.items = items]
    IN  /\ writes < MaxWrites
        /\ default_config' =
               IF SharesDefaults(s)
               THEN [default_config EXCEPT !.items = items]
               ELSE default_config
        /\ files' = [files EXCEPT ![s] = saved]
        /\ writes' = writes + 1
        /\ UNCHANGED <<ret, calls>>
        /\ UNCHANGED <<docvars, pdfvars>>

\* a process that configures the company, edits the items and numbers quotes
SettingsNext ==
    \/ \E s \in Stores, field \in CompanyFields :
           \E value \in SetterValues[field] : SetCompany(s, field, value)
    \/ \E s \in Stores, key \in ItemKeys, label \in ItemLabels, unit_price \in ItemPrices :
           UpsertItem(s, key, label, unit_price)
    \/ \E s \in Stores :
           /\ writes < MaxWrites
           /\ NextNumber(s, [doc_type |-> "quote", prefix |-> "D-", width |-> 4])

SpecSettings == ConfigInit /\ [][SettingsNext]_vars

Next == ComputeTotals \/ ExportJson \/ ParseQuoteJson

Spec == Init /\ [][Next]_vars


(***************************************************************************)
(* The PDF export, backend.py.  Lengths are in 1/100 of a point: the page  *)
(* is A4, 595.28 x 841.89 points, and every other length of the code is a  *)
(* whole number of points.                                                 *)
(***************************************************************************)
PageHeight == 84189

PageWidth == 59528

Pt == 100

top_margin == 50 * Pt

bottom_margin == 40 * Pt

left == 50 * Pt

right == PageWidth - 50 * Pt

max_chars == 100

\* `if x:` on an Optional[str]
Set(opt) == opt # <<>> /\ opt[1] # ""

\* one drawing call on the canvas: what, on which page, at which height, which text
Draw(op, page, at, text) == [op |-> op, page |-> page, y |-> at, text |-> text]

\* _draw_header, backend.py 19-54, from y_start on page `page`; the logo is drawn
\* when a path is set and the image can be loaded, and skipped silently otherwise
header_title(d) == IF d.doc_type = "DocumentType.QUOTE" THEN "DEVIS" ELSE "FACTURE"

\* variant of header_ops in which a logo that fails to load leaves the header undated
header_ops_failed_logo_drops_date(d, page, y_start, loadable) ==
    IF Set(d.issuer.logo_path) /\ ~loadable
    THEN <<Draw("title", page, y_start,
                header_title(d) \o " " \o (IF d.number # <<>> THEN d.number[1] ELSE ""))>>
    ELSE << Draw("title", page, y_start,
                 header_title(d) \o " " \o (IF d.number # <<>> THEN d.number[1] ELSE "")),
            Draw("date", page, y_start - 20 * Pt, "Date: " \o isoformat(d.date_)) >>
         \o (IF Set(d.issuer.logo_path)
             THEN <<Draw("logo", page, y_start - 10 * Pt, d.issuer.logo_path[1])>>
             ELSE <<>>)

header_ops(d, page, y_start, loadable) ==
    << Draw("title", page, y_start,
            header_title(d) \o " " \o (IF d.number # <<>> THEN d.number[1] ELSE "")),
       Draw("date", page, y_start - 20 * Pt, "Date: " \o isoformat(d.date_)) >>
    \o (IF Set(d.issuer.logo_path) /\ loadable
        THEN <<Draw("logo", page, y_start - 10 * Pt, d.issuer.logo_path[1])>>
        ELSE <<>>)

header_y(y_start) == y_start - 20 * Pt - 18 * Pt

\* the rows of a party frame, backend.py 67-73 and 84-90: the name, the address
\* and the labelled email, phone and SIRET, those that are not empty
party_lines(p) ==
    SelectSeq(<< p.name,
                 IF Set(p.address) THEN p.address[1] ELSE "",
                 IF Set(p.email) THEN "Email: " \o p.email[1] ELSE "",
                 IF Set(p.phone) THEN "Téléphone: " \o p.phone[1] ELSE "",
                 IF Set(p.siret) THEN "SIRET: " \o p.siret[1] ELSE "" >>,
              LAMBDA ln : ln # "")

\* _draw_parties_frames, backend.py 57-96
issuer_y(d, y0) == y0 - 12 * Pt - 12 * Pt * Len(party_lines(d.issuer))

\* a customer column that starts where the issuer column ended
client_top_below_issuer(d, y0) == issuer_y(d, y0)

\* y_client, backend.py 79: back to the top of the issuer column
client_top(d, y0) == issuer_y(d, y0) + 12 * Pt * (Len(party_lines(d.issuer)) + 1)

client_y(d, y0) == client_top(d, y0) - 12 * Pt - 12 * Pt * Len(party_lines(d.customer))

parties_y(d, y0) == Min(issuer_y(d, y0), client_y(d, y0)) - 10 * Pt

parties_ops(d, page, y0) ==
    <<Draw("issuer", page, y0, "Émetteur")>>
    \o [i \in 1..Len(party_lines(d.issuer)) |->
            Draw("issuer line", page, y0 - 12 * Pt * i, party_lines(d.issuer)[i])]
    \o <<Draw("client", page, client_top(d, y0), "Client")>>
    \o [i \in 1..Len(party_lines(d.customer)) |->
            Draw("client line", page, client_top(d, y0) - 12 * Pt * i,
                 party_lines(d.customer)[i])]

\* _draw_realization_block, backend.py 99-118
has_realization(d) == Set(d.subject) \/ d.validity_end_date # <<>>

realization_y(d, y0) ==
    IF ~has_realization(d) THEN y0
    ELSE y0 - 12 * Pt
            - (IF Set(d.subject) THEN 12 * Pt ELSE 0)
            - (IF d.validity_end_date # <<>> THEN 12 * Pt ELSE 0)
            - 6 * Pt - 8 * Pt

realization_ops(d, page, y0) ==
    IF ~has_realization(d) THEN <<>>
    ELSE <<Draw("realization", page, y0, "Réalisation")>>
         \o (IF Set(d.subject)
             THEN <<Draw("subject", page, y0 - 12 * Pt, "Sujet: " \o d.subject[1])>>
             ELSE <<>>)
         \o (IF d.validity_end_date # <<>>
             THEN <<Draw("validity", page,
                         y0 - 12 * Pt - (IF Set(d.subject) THEN 12 * Pt ELSE 0),
                         "Validité du devis: " \o isoformat(d.validity_end_date[1]))>>
             ELSE <<>>)
         \o <<Draw("rule", page, realization_y(d, y0) + 8 * Pt, "")>>

\* _draw_table_header, backend.py 121-134
table_header_y(y0) == y0 - 12 * Pt - 8 * Pt

\* variant of table_header_ops that draws nothing
table_header_ops_none(page, y0) == <<>>

table_header_ops(page, y0) == <<Draw("table header", page, y0, "Description")>>

\* _draw_footer, backend.py 137-139
footer_ops(page) ==
    <<Draw("footer", page, bottom_margin - 20 * Pt, "Page " \o IntToStr(page))>>

\* variant of row_text that always shows the key of the item
row_text_item_key(line) == line.item_key

\* the text of a row, backend.py 206
row_text(line) == IF line.description # "" THEN line.description ELSE line.item_key

(***************************************************************************)
(* textwrap.fill(paragraph, max_chars) then splitlines(), backend.py       *)
(* 238-239.  A paragraph is the sequence of the lengths of its words, the  *)
(* words one space apart; the result is the sequence of the lengths of the *)
(* wrapped lines.  A line takes chunks (words and spaces) while they fit;  *)
(* a word longer than the width is cut to fill the line; a space that      *)
(* starts a line after the first or ends a line is dropped.                *)
(***************************************************************************)
Chunks(words) ==
    [i \in 1..(IF words = <<>> THEN 0 ELSE 2 * Len(words) - 1) |->
        IF i % 2 = 1 THEN [len |-> words[(i + 1) \div 2], space |-> FALSE]
        ELSE [len |-> 1, space |-> TRUE]]

RECURSIVE FillLine(_, _, _)
FillLine(chunks, cur_len, trailing) ==
    IF chunks # <<>> /\ cur_len + Head(chunks).len <= max_chars
    THEN FillLine(Tail(chunks), cur_len + Head(chunks).len,
                  IF Head(chunks).space THEN Head(chunks).len ELSE 0)
    ELSE IF chunks # <<>> /\ Head(chunks).len > max_chars /\ max_chars - cur_len > 0
    THEN [rest |-> <<[len |-> Head(chunks).len - (max_chars - cur_len), space |-> FALSE]>>
                       \o Tail(chunks),
          cur_len |-> max_chars, trailing |-> 0]
    ELSE [rest |-> chunks, cur_len |-> cur_len, trailing |-> trailing]

RECURSIVE WrapChunks(_, _)
WrapChunks(chunks, lines) ==
    IF chunks = <<>> THEN lines
    ELSE LET start == IF Head(chunks).space /\ lines # <<>> THEN Tail(chunks) ELSE chunks
             line == FillLine(start, 0, 0)
             length == line.cur_len - line.trailing
         IN  WrapChunks(line.rest, IF length > 0 THEN Append(lines, length) ELSE lines)

RECURSIVE WrappedNotes(_)
WrappedNotes(paragraphs) ==
    IF paragraphs = <<>> THEN <<>>
    ELSE WrapChunks(Chunks(Head(paragraphs)), <<>>) \o WrappedNotes(Tail(paragraphs))

\* `if doc.notes:` the notes are a text that is not empty; a text has one
\* paragraph per line, and the empty text has none
has_notes(d) == d.notes # <<>> /\ d.notes[1] # <<>>

notes_lines(d) == IF has_notes(d) THEN WrappedNotes(d.notes[1]) ELSE <<>>

(***************************************************************************)
(* The documents of the PDF export: every combination of an issuer, a      *)
(* customer, a doc type, a subject, a validity date, notes, a logo and a   *)
(* number of lines, few (0..SmallRows) or many (ManyRows..MaxRows).        *)
(***************************************************************************)
ManyRows == 40

Company(n, fields, logo) ==
    [name |-> n, logo_path |-> logo, logo_max_width |-> <<80>>,
     logo_max_height |-> <<40>>, logo_margin_right |-> <<10>>,
     address |-> IF "address" \in fields THEN <<"1 rue de la Paix">> ELSE <<>>,
     email |-> IF "email" \in fields THEN <<"me@co.example">> ELSE <<>>,
     phone |-> IF "phone" \in fields THEN <<"+33 1 23 45 67 89">> ELSE <<>>,
     siret |-> IF "siret" \in fields THEN <<"123 456 789 00010">> ELSE <<>>]

Customer(n, fields) ==
    [name |-> n,
     address |-> IF "address" \in fields THEN <<"Somewhere">> ELSE <<>>,
     email |-> IF "email" \in fields THEN <<"c@example.com">> ELSE <<>>,
     phone |-> IF "phone" \in fields THEN <<"0102030405">> ELSE <<>>,
     siret |-> IF "siret" \in fields THEN <<"987 654 321 00010">> ELSE <<>>]

AllFields == {"address", "email", "phone", "siret"}

PdfIssuers ==
    { Company("", {}, <<>>),
      Company("Ma Société", {}, <<>>),
      Company("My Co", {"email"}, <<"no-logo.png">>),
      Company("My Co", AllFields, <<"no-logo.png">>) }

PdfCustomers ==
    { Customer("", {}), Customer("Foo Inc", {"address"}), Customer("Foo Inc", AllFields) }

\* None; the text of the test, 'Ligne A\nLigne B'; a text of three paragraphs, two
\* words of 60 characters, an empty line and a word of 250 characters
PdfNotes ==
    { <<>>, << <<>> >>, << << <<5, 1>>, <<5, 1>> >> >>, << << <<60, 60>>, <<>>, <<250>> >> >> }

\* the lines of the test, 'k<i>' and 'Ligne <i>' of quantity 1 at 1.00, every second of
\* three being 3 h at 80.00 less 10 % with 20 % tax and every third 1 at 50.00 less
\* 50 % with 5 % tax
PdfLines(n) ==
    [i \in 1..n |->
        CASE i % 3 = 1 ->
                 LineItem("k" \o IntToStr(i), "Ligne " \o IntToStr(i), 10, 100, 0, "", 0)
          [] i % 3 = 2 ->
                 LineItem("k" \o IntToStr(i), "Ligne " \o IntToStr(i), 30, 8000, 10, "h", 20)
          [] OTHER ->
                 LineItem("k" \o IntToStr(i), "Ligne " \o IntToStr(i), 10, 5000, 50, "", 5)]

RowCounts == (0..SmallRows) \cup (ManyRows..MaxRows)

PdfDocuments ==
    { [doc_type |-> t, issuer |-> i, customer |-> c, lines |-> PdfLines(n),
       number |-> <<"D-4242">>, date_ |-> [year |-> 2025, month |-> 1, day |-> 31],
       notes |-> nt, subject |-> sb, validity_end_date |-> v] :
        t \in DocTypes, i \in PdfIssuers, c \in PdfCustomers, n \in RowCounts,
        nt \in PdfNotes, sb \in {<<>>, <<"Sujet de test">>},
        v \in {<<>>, <<[year |-> 2025, month |-> 1, day |-> 31]>>} }

(***************************************************************************)
(* export_pdf, backend.py 150-261, step by step.                           *)
(***************************************************************************)
PdfInit ==
    /\ doc \in PdfDocuments
    /\ file = Absent
    /\ totals = <<>>
    /\ parsed = <<>>
    /\ pc = "start"
    /\ default_config = DEFAULT_CONFIG
    /\ files = NoFiles
    /\ ret = <<>>
    /\ calls = NoCalls
    /\ writes = 0
    /\ ppc = "header"
    /\ y = PageHeight - top_margin
    /\ page_num = 1
    /\ row = 0
    /\ note = 0
    /\ canvas = <<>>
    /\ logo_loadable \in (IF Set(doc.issuer.logo_path) THEN BOOLEAN ELSE {FALSE})

\* backend.py 164-178
DrawHeader ==
    /\ ppc = "header"
    /\ canvas' = canvas \o header_ops(doc, page_num, y, logo_loadable)
    /\ y' = header_y(y)
    /\ ppc' = "parties"
    /\ UNCHANGED <<page_num, row, note, logo_loadable, docvars, cfgvars>>

\* backend.py 180
DrawPartiesFrames ==
    /\ ppc = "parties"
    /\ canvas' = canvas \o parties_ops(doc, page_num, y)
    /\ y' = parties_y(doc, y)
    /\ ppc' = "realization"
    /\ UNCHANGED <<page_num, row, note, logo_loadable, docvars, cfgvars>>

\* backend.py 182
DrawRealizationBlock ==
    /\ ppc = "realization"
    /\ canvas' = canvas \o realization_ops(doc, page_num, y)
    /\ y' = realization_y(doc, y)
    /\ ppc' = "table header"
    /\ UNCHANGED <<page_num, row, note, logo_loadable, docvars, cfgvars>>

\* backend.py 183
DrawTableHeader ==
    /\ ppc = "table header"
    /\ canvas' = canvas \o table_header_ops(page_num, y)
    /\ y' = table_header_y(y)
    /\ ppc' = "rows"
    /\ UNCHANGED <<page_num, row, note, logo_loadable, docvars, cfgvars>>

\* variant of row_break that keeps the room of the notes (20 points) only
row_break_at_notes_threshold(at) == at < bottom_margin + 20 * Pt

\* variant of row_break that breaks one row (14 points) earlier
row_break_one_row_earlier(at) == at < bottom_margin + 60 * Pt + 14 * Pt

\* a loop over doc.lines that breaks the page before every row
row_break_always(at) == TRUE

\* the page break of the table, backend.py 188
row_break(at) == at < bottom_margin + 60 * Pt

\* variant of notes_break with the guard band of the table (60 points)
notes_break_at_row_threshold(at) == at < bottom_margin + 60 * Pt

\* the page break of the notes, backend.py 240-255
notes_break(at) == at < bottom_margin + 20 * Pt

\* variant of break_ops that leaves the page without drawing its footer
break_ops_without_footer(d, page, loadable) ==
    <<Draw("showPage", page, 0, "")>>
        \o header_ops(d, page + 1, PageHeight - top_margin, loadable)

\* footer, showPage and the header of the next page, backend.py 189-203 and 241-255
break_ops(d, page, loadable) ==
    footer_ops(page) \o <<Draw("showPage", page, 0, "")>>
        \o header_ops(d, page + 1, PageHeight - top_margin, loadable)

\* one pass of the loop over doc.lines, backend.py 186-214
EmitRow ==
    /\ ppc = "rows"
    /\ row < Len(doc.lines)
    /\ LET break == row_break(y)
           top == header_y(PageHeight - top_margin)
           at == IF break THEN table_header_y(top) ELSE y
           page == IF break THEN page_num + 1 ELSE page_num
       IN  /\ canvas' = canvas
                  \o (IF break
                      THEN break_ops(doc, page_num, logo_loadable)
                               \o table_header_ops(page, top)
                      ELSE <<>>)
                  \o <<Draw("row", page, at, row_text(doc.lines[row + 1]))>>
           /\ page_num' = page
           /\ y' = at - 14 * Pt
    /\ row' = row + 1
    /\ UNCHANGED <<ppc, note, logo_loadable, docvars, cfgvars>>

\* '{x:.2f}' of an amount
Fmt2(amount) ==
    IntToStr((amount \div Cent) \div 100) \o "." \o ZeroPad(IntToStr((amount \div Cent) % 100), 2)

\* the rule and the three totals, backend.py 216-228
DrawTotalsBlock ==
    /\ ppc = "rows"
    /\ row = Len(doc.lines)
    /\ canvas' = canvas \o
           << Draw("rule", page_num, y - 6 * Pt, ""),
              Draw("total ht", page_num, y - 24 * Pt,
                   "TOTAL HT: " \o Fmt2(subtotal_ht(doc)) \o " €"),
              Draw("total tva", page_num, y - 38 * Pt,
                   "TOTAL TVA: " \o Fmt2(total_tva(doc)) \o " €"),
              Draw("net", page_num, y - 52 * Pt,
                   "Net à payer: " \o Fmt2(net_to_pay(doc)) \o " €") >>
    /\ y' = y - 6 * Pt - 18 * Pt - 14 * Pt - 14 * Pt - 16 * Pt
    /\ ppc' = IF has_notes(doc) THEN "notes heading" ELSE "footer"
    /\ UNCHANGED <<page_num, row, note, logo_loadable, docvars, cfgvars>>

\* backend.py 231-236
DrawNotesHeading ==
    /\ ppc = "notes heading"
    /\ canvas' = Append(canvas, Draw("notes heading", page_num, y, "Notes:"))
    /\ y' = y - 12 * Pt
    /\ ppc' = IF notes_lines(doc) = <<>> THEN "footer" ELSE "notes"
    /\ UNCHANGED <<page_num, row, note, logo_loadable, docvars, cfgvars>>

\* one pass of the loops over the wrapped lines of the notes, backend.py 237-257
EmitNotesLine ==
    /\ ppc = "notes"
    /\ note < Len(notes_lines(doc))
    /\ LET break == notes_break(y)
           at == IF break THEN header_y(PageHeight - top_margin) ELSE y
           page == IF break THEN page_num + 1 ELSE page_num
       IN  /\ canvas' = canvas
                  \o (IF break THEN break_ops(doc, page_num, logo_loadable) ELSE <<>>)
                  \o <<Draw("notes line", page, at, IntToStr(notes_lines(doc)[note + 1]))>>
           /\ page_num' = page
           /\ y' = at - 12 * Pt
    /\ note' = note + 1
    /\ ppc' = IF note + 1 = Len(notes_lines(doc)) THEN "footer" ELSE "notes"
    /\ UNCHANGED <<row, logo_loadable, docvars, cfgvars>>

\* the footer of the last page and c.save(), backend.py 259-261
DrawFinalFooter ==
    /\ ppc = "footer"
    /\ canvas' = canvas \o footer_ops(page_num)
    /\ ppc' = "done"
    /\ UNCHANGED <<y, page_num, row, note, logo_loadable, docvars, cfgvars>>

(***************************************************************************)
(* export_pdf as one function of the document and of whether its logo can  *)
(* be loaded: the cursor, the page number and the drawing calls at return. *)
(***************************************************************************)
\* the rows from the i-th on, backend.py 186-214
RECURSIVE rows_loop(_, _, _, _)
rows_loop(d, loadable, st, i) ==
    IF i > Len(d.lines) THEN st
    ELSE LET break == row_break(st.y)
             top == header_y(PageHeight - top_margin)
             at == IF break THEN table_header_y(top) ELSE st.y
             page == IF break THEN st.page_num + 1 ELSE st.page_num
         IN  rows_loop(d, loadable,
                       [y |-> at - 14 * Pt, page_num |-> page,
                        canvas |-> st.canvas
                            \o (IF break
                                THEN break_ops(d, st.page_num, loadable)
                                         \o table_header_ops(page, top)
                                ELSE <<>>)
                            \o <<Draw("row", page, at, row_text(d.lines[i]))>>],
                       i + 1)

\* the rule and the three totals, backend.py 216-228
totals_block(d, st) ==
    [y |-> st.y - 68 * Pt, page_num |-> st.page_num,
     canvas |-> st.canvas \o
         << Draw("rule", st.page_num, st.y - 6 * Pt, ""),
            Draw("total ht", st.page_num, st.y - 24 * Pt,
                 "TOTAL HT: " \o Fmt2(subtotal_ht(d)) \o " €"),
            Draw("total tva", st.page_num, st.y - 38 * Pt,
                 "TOTAL TVA: " \o Fmt2(total_tva(d)) \o " €"),
            Draw("net", st.page_num, st.y - 52 * Pt,
                 "Net à payer: " \o Fmt2(net_to_pay(d)) \o " €") >>]

\* the wrapped notes lines from the i-th on, backend.py 237-257
RECURSIVE notes_loop(_, _, _, _)
notes_loop(d, loadable, st, i) ==
    IF i > Len(notes_lines(d)) THEN st
    ELSE LET break == notes_break(st.y)
             at == IF break THEN header_y(PageHeight - top_margin) ELSE st.y
             page == IF break THEN st.page_num + 1 ELSE st.page_num
         IN  notes_loop(d, loadable,
                        [y |-> at - 12 * Pt, page_num |-> page,
                         canvas |-> st.canvas
                             \o (IF break THEN break_ops(d, st.page_num, loadable) ELSE <<>>)
                             \o <<Draw("notes line", page, at,
                                       IntToStr(notes_lines(d)[i]))>>],
                        i + 1)

\* export_pdf, backend.py 150-261
export_pdf(d, loadable) ==
    LET y0 == PageHeight - top_margin
        y1 == header_y(y0)
        y2 == parties_y(d, y1)
        y3 == realization_y(d, y2)
        table == [y |-> table_header_y(y3), page_num |-> 1,
                  canvas |-> header_ops(d, 1, y0, loadable) \o parties_ops(d, 1, y1)
                                 \o realization_ops(d, 1, y2) \o table_header_ops(1, y3)]
        totalled == totals_block(d, rows_loop(d, loadable, table, 1))
        noted == IF has_notes(d)
                 THEN notes_loop(d, loadable,
                                 [totalled EXCEPT
                                      !.y = @ - 12 * Pt,
                                      !.canvas = Append(@, Draw("notes heading",
                                                                totalled.page_num,
                                                                totalled.y, "Notes:"))],
                                 1)
                 ELSE totalled
    IN  [noted EXCEPT !.canvas = @ \o footer_ops(noted.page_num)]

(***************************************************************************)
(* AppController.generate_document, app_controller.py 124-185, on the      *)
(* store s: the issuer is the company of the configuration, the number is  *)
(* the one given or the next of the type's counter, and the document is    *)
(* exported to JSON and to PDF.                                            *)
(***************************************************************************)
\* variant of NumberPrefix that numbers every document as a quote
NumberPrefix_always_quote(t) == "D-"

\* 'D-' pour devis, 'F-' pour facture, app_controller.py 172-176
NumberPrefix(t) == IF t = "quote" THEN "D-" ELSE "F-"

\* the arguments of the calls: no number or a number, one customer, no line or one
GivenNumbers == {<<>>, <<"X-7">>}

GivenLines == {<<>>, PdfLines(1)}

GenerateDocument(s, t, number, lines) ==
    LET data == load(s)
        num == data.counters[t] + 1
        saved == [data EXCEPT !.counters[t] = num]
        built == [doc_type |-> t, issuer |-> data.company, customer |-> Party("ACME"),
                  lines |-> lines,
                  number |-> IF number = <<>>
                             THEN <<FormatNumber(NumberPrefix(t), num, 4)>>
                             ELSE number,
                  date_ |-> [year |-> 2025, month |-> 1, day |-> 31],
                  notes |-> <<>>, subject |-> <<>>, validity_end_date |-> <<>>]
        pdf == export_pdf(built, FALSE)
    IN  /\ IF number = <<>>
           THEN /\ calls[s]["quote"] + calls[s]["invoice"] < MaxGenerated
                /\ default_config' =
                       IF SharesDefaults(s)
                       THEN [default_config EXCEPT !.counters[t] = num]
                       ELSE default_config
                /\ files' = [files EXCEPT ![s] = saved]
                /\ ret' = << [store |-> s, doc_type |-> t, prefix |-> NumberPrefix(t),
                              width |-> 4, num |-> num,
                              value |-> FormatNumber(NumberPrefix(t), num, 4)] >>
                /\ calls' = [calls EXCEPT ![s][t] = @ + 1]
                /\ writes' = writes + 1
           ELSE UNCHANGED cfgvars
        /\ doc' = built
        /\ file' = export_json(built)
        /\ pc' = "exported"
        /\ ppc' = "done"
        /\ y' = pdf.y
        /\ page_num' = pdf.page_num
        /\ canvas' = pdf.canvas
        /\ row' = Len(lines)
        /\ note' = 0
        /\ UNCHANGED <<totals, parsed, logo_loadable>>

ConfigNext == \E s \in Stores, f \in NumberFormats : NextNumber(s, f)

SpecConfig == ConfigInit /\ [][ConfigNext]_vars

GenerateNext ==
    \E s \in Stores, t \in DocTypes, number \in GivenNumbers, lines \in GivenLines :
        GenerateDocument(s, t, number, lines)

SpecGenerate == ConfigInit /\ [][GenerateNext]_vars

PdfNext ==
    \/ DrawHeader \/ DrawPartiesFrames \/ DrawRealizationBlock \/ DrawTableHeader
    \/ EmitRow \/ DrawTotalsBlock \/ DrawNotesHeading \/ EmitNotesLine
    \/ DrawFinalFooter

SpecPdf == PdfInit /\ [][PdfNext]_vars

\* the documents whose export is followed to its end: every issuer, every number
\* of rows, every notes text, with and without a subject
PdfRunDocuments ==
    { d \in PdfDocuments :
        /\ d.doc_type = "quote"
        /\ d.customer = Customer("", {})
        /\ d.validity_end_date = <<>>
        /\ d.notes \in {<<>>, << << <<5, 1>>, <<5, 1>> >> >>} }

PdfRunsInit ==
    /\ doc \in PdfRunDocuments
    /\ file = Absent
    /\ totals = <<>>
    /\ parsed = <<>>
    /\ pc = "start"
    /\ default_config = DEFAULT_CONFIG
    /\ files = NoFiles
    /\ ret = <<>>
    /\ calls = NoCalls
    /\ writes = 0
    /\ ppc = "header"
    /\ y = PageHeight - top_margin
    /\ page_num = 1
    /\ row = 0
    /\ note = 0
    /\ canvas = <<>>
    /\ logo_loadable \in (IF Set(doc.issuer.logo_path) THEN BOOLEAN ELSE {FALSE})

\* export_pdf is one sequential call: a step that can be taken is taken
SpecPdfRuns == PdfRunsInit /\ [][PdfNext]_vars /\ WF_vars(PdfNext)

(***************************************************************************)
(* Properties of the monetary model.                                       *)
(***************************************************************************)
ScenarioA == LineItem("a", "A", 20, 10000, 0, "", 20)

ScenarioB == LineItem("b", "B", 10, 5000, 50, "", 5)

Computed == totals # <<>>

\* the tax of line i as the specification words it, from the total_ht() returned
ExpectedTaxTerm(i) ==
    LET pct == IF doc.lines[i].tax_pct < 0 THEN 0 ELSE doc.lines[i].tax_pct
    IN  (totals[1].lines[i] \div 100) * pct

\* C1: total_tva() is the sum over the lines of total_ht * max(0, tax_pct) / 100,
\* the terms unrounded and the sum rounded to 2 decimals once; a negative tax_pct
\* contributes 0, a tax_pct above 100 is applied as given; the lines (2 x 100,
\* tax 20%) and (1 x 50, discount 50%, tax 5%) give 41.25.
C1_TotalTva ==
    Computed =>
        /\ totals[1].total_tva =
               Round2(SumSeq([i \in 1..Len(doc.lines) |-> ExpectedTaxTerm(i)]))
        /\ doc.lines = <<ScenarioA, ScenarioB>> => totals[1].total_tva = 4125000

\* a document whose tax terms are fractions of a cent that add up to a cent, and
\* the scenario of the specification
C1_Witness ==
    /\ Computed
    /\ \/ /\ doc.lines = <<ScenarioA, ScenarioB>>
          /\ totals[1].total_tva = 4125000
       \/ /\ Len(doc.lines) = 2
          /\ \A i \in 1..2 : ExpectedTaxTerm(i) % Cent # 0
          /\ \E i \in 1..2 : doc.lines[i].tax_pct > 100
    /\ \E i \in 1..Len(doc.lines) : doc.lines[i].tax_pct > 0

\* C2 as stated: total_ht() is quantity * unit_price * (1 - discount_pct/100)
\* rounded to 2 decimals for discount_pct in 0..100, and with discount_pct = 0 it
\* equals quantity * unit_price exactly.
C2_AsStated ==
    Computed =>
        \A i \in 1..Len(doc.lines) :
            LET li == doc.lines[i]
            IN  /\ li.discount_pct \in 0..100 =>
                    totals[1].lines[i] =
                        Round2(li.quantity * li.unit_price * (100 - li.discount_pct))
                /\ li.discount_pct = 0 =>
                    totals[1].lines[i] = li.quantity * li.unit_price * 100

\* C2 amended: total_ht() is quantity * unit_price * (1 - discount_pct/100) rounded
\* to 2 decimals for discount_pct in 0..100 (10 x 100 at 10% gives 900.0); with
\* discount_pct = 0 it is quantity * unit_price rounded to 2 decimals, which is
\* quantity * unit_price itself when that product has at most 2 decimals.
C2_TotalHt ==
    Computed =>
        \A i \in 1..Len(doc.lines) :
            LET li == doc.lines[i]
                product == li.quantity * li.unit_price * 100
            IN  /\ li.discount_pct \in 0..100 =>
                    totals[1].lines[i] =
                        Round2(li.quantity * li.unit_price * (100 - li.discount_pct))
                /\ li.discount_pct = 0 =>
                    /\ totals[1].lines[i] = Round2(product)
                    /\ product % Cent = 0 => totals[1].lines[i] = product
                /\ (li.quantity = 100 /\ li.unit_price = 10000 /\ li.discount_pct = 10)
                       => totals[1].lines[i] = 90000000

\* a line without discount whose product has a third decimal (1.2 x 0.08 = 0.096)
C2_Witness ==
    /\ Computed
    /\ Len(doc.lines) = 1
    /\ doc.lines[1].discount_pct = 0
    /\ (doc.lines[1].quantity * doc.lines[1].unit_price * 100) % Cent # 0
    /\ totals[1].lines[1] = 10000

\* C3: a negative discount_pct never increases the price: with quantity >= 0,
\* unit_price >= 0 and discount_pct < 0, total_ht() <= round2(quantity * unit_price).
C3_NegativeDiscountNeverIncreases ==
    Computed =>
        \A i \in 1..Len(doc.lines) :
            LET li == doc.lines[i]
            IN  (li.quantity >= 0 /\ li.unit_price >= 0 /\ li.discount_pct < 0) =>
                    totals[1].lines[i] <= Round2(li.quantity * li.unit_price * 100)

\* C4: net_to_pay() is round2(subtotal_ht() + total_tva()); subtotal 225.0 and
\* tax 41.25 give 266.25.
C4_NetToPay ==
    Computed =>
        /\ totals[1].net_to_pay = Round2(totals[1].subtotal_ht + totals[1].total_tva)
        /\ (totals[1].subtotal_ht = 22500000 /\ totals[1].total_tva = 4125000)
               => totals[1].net_to_pay = 26625000

C4_Witness ==
    /\ Computed
    /\ doc.lines = <<ScenarioA, ScenarioB>>
    /\ totals[1].subtotal_ht = 22500000
    /\ totals[1].total_tva = 4125000
    /\ totals[1].net_to_pay = 26625000

\* C5: subtotal_ht() is the sum of the rounded total_ht() of the lines, rounded to
\* 2 decimals once after the summation; the line totals have 2 decimals and the
\* final rounding changes nothing; (1 x 100, 0%) and (2 x 50, 50%) give 150.0.
C5_SubtotalHt ==
    Computed =>
        LET sum == SumSeq(totals[1].lines)
        IN  /\ totals[1].subtotal_ht = Round2(sum)
            /\ \A i \in 1..Len(doc.lines) : totals[1].lines[i] % Cent = 0
            /\ totals[1].subtotal_ht = sum
            /\ doc.lines = << LineItem("a", "A", 10, 10000, 0, "", 0),
                              LineItem("b", "B", 20, 5000, 50, "", 0) >>
                   => totals[1].subtotal_ht = 15000000

\* two lines whose unrounded prices are fractions of a cent, or the lines of the test
C5_Witness ==
    /\ Computed
    /\ Len(doc.lines) = 2
    /\ \/ \A i \in 1..2 : DiscountedPrice(doc.lines[i]) % Cent # 0
       \/ totals[1].subtotal_ht = 15000000
    /\ totals[1].subtotal_ht > 0

(***************************************************************************)
(* Properties of the JSON export and import.                               *)
(***************************************************************************)
\* C6: round trip: export_json then parse_quote_json returns the customer name of
\* the document and, in the same order, line items equal to its lines in all seven
\* fields (item_key, description, quantity, unit_price, discount_pct, unit, tax_pct).
C6_RoundTrip ==
    pc = "reimported" =>
        /\ parsed[1].status = "ok"
        /\ parsed[1].customer_name = doc.customer.name
        /\ parsed[1].lines = doc.lines

\* a record of a file: the entry is a record with the four required keys whose
\* numbers can be read
WellFormedEntry(e) ==
    /\ e.t = "obj"
    /\ \A k \in {"item_key", "description", "quantity", "unit_price"} : k \in DOMAIN e.o
    /\ \A k \in {"quantity", "unit_price", "discount_pct"} :
           k \in DOMAIN e.o => \/ e.o[k].t \in {"num", "null", "bool"}
                               \/ e.o[k].t = "str" /\ e.o[k].s \in {"", "3", "10"}

\* entry e of the file and the line item returned for it agree on what e gives plainly
SameEntry(e, li) ==
    /\ e.o.item_key.t = "str" => li.item_key = e.o.item_key.s
    /\ e.o.description.t = "str" => li.description = e.o.description.s
    /\ e.o.quantity.t = "num" => li.quantity = e.o.quantity.n
    /\ e.o.unit_price.t = "num" => li.unit_price = e.o.unit_price.n

HasLinesArray == file.t = "obj" /\ "lines" \in DOMAIN file.o /\ file.o.lines.t = "arr"

\* C9: parse_quote_json skips every entry of `lines` that is no record or lacks one
\* of the four required keys, without raising, and returns the well-formed entries,
\* all of them and only them, in their original relative order.
C9_SkipsMalformedEntries ==
    (pc = "imported" /\ HasLinesArray) =>
        LET good == SelectSeq(file.o.lines.a, WellFormedEntry)
        IN  /\ parsed[1].status = "ok"
            /\ Len(parsed[1].lines) = Len(good)
            /\ \A i \in 1..Len(good) : SameEntry(good[i], parsed[1].lines[i])

\* the file of the test, a well-formed entry and {'bad': 'line'}, and a file with a
\* scalar between two well-formed entries
C9_Witness ==
    /\ pc = "imported"
    /\ HasLinesArray
    /\ Len(file.o.lines.a) >= 2
    /\ \E i \in 1..Len(file.o.lines.a) :
           file.o.lines.a[i] \in {JObj([bad |-> JStr("line")]), JNum(7)}
    /\ Len(parsed[1].lines) = Len(file.o.lines.a) - 1
    /\ parsed[1].lines[1].item_key \in {"ok", "svc"}

\* C10: parse_quote_json raises only when the file is missing or unreadable or its
\* content cannot be parsed; for a file that holds a record it returns a
\* (customer_name, lines) pair whatever the values under `customer` and `lines`.
C10_RaisesOnlyOnUnreadableFile ==
    (parsed # <<>> /\ file.t = "obj") => parsed[1].status = "ok"

(***************************************************************************)
(* Properties of the configuration store.                                  *)
(***************************************************************************)
\* C7: on a fresh store the n-th call of next_number(t, prefix, width) for doc type
\* t returns prefix followed by n zero-padded to width; every store is fresh at the
\* start, so the call just made on a store for t is its calls[store][t]-th.
C7_NthCallReturnsN ==
    ret # <<>> =>
        ret[1].value =
            ret[1].prefix \o ZeroPad(IntToStr(calls[ret[1].store][ret[1].doc_type]),
                                     ret[1].width)

(***************************************************************************)
(* Properties of the PDF export.                                           *)
(***************************************************************************)
Exported == ppc = "done"

PageBreaks == Cardinality({i \in 1..Len(canvas) : canvas[i].op = "showPage"})

\* the header with the fewest rows: no name, no optional field, no subject, no validity
MinimalHeader ==
    /\ party_lines(doc.issuer) = <<>>
    /\ party_lines(doc.customer) = <<>>
    /\ ~has_realization(doc)

\* C8 as stated: every exported document of at least 40 line items has more than one
\* page, whatever its header
C8_AsStated ==
    (Exported /\ Len(doc.lines) >= ManyRows) => page_num > 1

\* C8: every exported document of at least 45 line items has more than one page, at
\* least one page break having occurred before the final footer, whatever optional
\* header fields are populated; each break is one showPage, and a document of 40
\* lines whose header is minimal and which has no notes has one page only
C8_ManyRowsBreakPage ==
    Exported =>
        /\ page_num = PageBreaks + 1
        /\ Len(doc.lines) >= 45 => page_num > 1
        /\ (Len(doc.lines) = ManyRows /\ MinimalHeader /\ ~has_notes(doc)) => page_num = 1

\* C8: a document of 45 lines with the minimal header and no notes is exported on two
\* pages
C8_Witness ==
    /\ Exported
    /\ Len(doc.lines) = 45
    /\ MinimalHeader
    /\ ~has_notes(doc)
    /\ page_num = 2
    /\ PageBreaks = 1

(***************************************************************************)
(* Properties of the parser, continued.                                    *)
(***************************************************************************)
\* a value float() rejects: a text that is no number, a list or a record with elements
Uncoercible(v) ==
    \/ v.t = "str" /\ v.s \notin {"", "3", "10"}
    \/ v.t = "arr" /\ v.a # <<>>
    \/ v.t = "obj" /\ DOMAIN v.o # {}

\* an entry that passes the structural check and holds a number that cannot be read
CoercionFails(e) ==
    /\ e.t = "obj"
    /\ \A k \in {"item_key", "description", "quantity", "unit_price"} : k \in DOMAIN e.o
    /\ \E k \in {"quantity", "unit_price", "discount_pct"} :
           k \in DOMAIN e.o /\ Uncoercible(e.o[k])

\* sequence s without its i-th element
Without(s, i) == [j \in 1..(Len(s) - 1) |-> IF j < i THEN s[j] ELSE s[j + 1]]

\* C11: an entry that passes the structural check but whose quantity, unit_price or
\* discount_pct cannot be read as a number is skipped alone, with one diagnostic: the
\* call returns what it returns for the file without that entry, so the entries
\* before and after it are parsed and returned.
C11_CoercionFailureSkipsOneEntry ==
    (pc = "imported" /\ HasLinesArray) =>
        \A i \in 1..Len(file.o.lines.a) :
            CoercionFails(file.o.lines.a[i]) =>
                LET rest == JObj([file.o EXCEPT !.lines = JArr(Without(file.o.lines.a, i))])
                IN  /\ parsed[1].status = "ok"
                    /\ parsed[1].lines = parse_quote_json(rest).lines
                    /\ Len(parsed[1].lines)
                           = Len(SelectSeq(file.o.lines.a, WellFormedEntry))
                    /\ Len(parsed[1].log) = Len(parse_quote_json(rest).log) + 1
                    /\ \E j \in 1..Len(parsed[1].log) : parsed[1].log[j] = "malformed"

\* C11: a file whose second entry has an unreadable number, between two well-formed
\* entries, gives the first and the third entry
C11_Witness ==
    /\ pc = "imported"
    /\ HasLinesArray
    /\ Len(file.o.lines.a) = 3
    /\ WellFormedEntry(file.o.lines.a[1])
    /\ CoercionFails(file.o.lines.a[2])
    /\ WellFormedEntry(file.o.lines.a[3])
    /\ Len(parsed[1].lines) = 2
    /\ parsed[1].lines[1].item_key = "ok"
    /\ parsed[1].lines[2].item_key = "svc"
    /\ parsed[1].log = <<"malformed">>

\* the text of an optional key of an entry, '' when the key is missing
GivenText(e, k) == IF k \in DOMAIN e.o /\ e.o[k].t = "str" THEN e.o[k].s ELSE ""

\* the number of an optional key of an entry, 0 when the key is missing
GivenNumber(e, k) == IF k \in DOMAIN e.o /\ e.o[k].t = "num" THEN e.o[k].n ELSE 0

\* C12: the line item of a well-formed entry carries the entry's discount_pct, unit
\* and tax_pct when the entry provides them, and 0.0, '' and 0.0 for those it omits.
C12_OptionalEntryFields ==
    (pc = "imported" /\ HasLinesArray /\ parsed[1].status = "ok") =>
        LET good == SelectSeq(file.o.lines.a, WellFormedEntry)
        IN  \A i \in 1..Len(good) :
                i <= Len(parsed[1].lines) =>
                    /\ parsed[1].lines[i].discount_pct = GivenNumber(good[i], "discount_pct")
                    /\ parsed[1].lines[i].unit = GivenText(good[i], "unit")
                    /\ parsed[1].lines[i].tax_pct = GivenNumber(good[i], "tax_pct")

(***************************************************************************)
(* Properties of the pages of the PDF export.  The page a drawing call     *)
(* lands on is counted from the showPage calls before it, not read from    *)
(* the page the call was recorded with.                                    *)
(***************************************************************************)
PageOf(k) == 1 + Cardinality({j \in 1..(k - 1) : canvas[j].op = "showPage"})

OpsAt(op) == {k \in 1..Len(canvas) : canvas[k].op = op}

FootersOn(p) == {k \in OpsAt("footer") : PageOf(k) = p}

\* C13: every page export_pdf produces, the last one included, carries exactly one
\* footer, 'Page n' with n the number of the page; the footer of a page is the last
\* thing drawn on it, just before the page is left; so n runs 1, 2, 3, ... and the
\* final footer's n is the number of pages.
C13_OneFooterPerPage ==
    /\ \A k \in OpsAt("footer") :
           /\ canvas[k].text = "Page " \o IntToStr(PageOf(k))
           /\ k = Len(canvas) \/ canvas[k + 1].op = "showPage"
    /\ \A k \in OpsAt("showPage") : k > 1 /\ canvas[k - 1].op = "footer"
    /\ \A p \in 1..(page_num - 1) : Cardinality(FootersOn(p)) = 1
    /\ Cardinality(FootersOn(page_num)) = IF Exported THEN 1 ELSE 0
    /\ Exported =>
           /\ page_num = PageBreaks + 1
           /\ canvas[Len(canvas)].op = "footer"
           /\ canvas[Len(canvas)].text = "Page " \o IntToStr(page_num)

\* C13: a document exported on two pages, with the footers 'Page 1' and 'Page 2'
C13_Witness ==
    /\ Exported
    /\ page_num = 2
    /\ [k \in 1..2 |-> SelectSeq(canvas, LAMBDA c : c.op = "footer")[k].text]
           = <<"Page 1", "Page 2">>

(***************************************************************************)
(* The order of the drawing steps, read from the recorded canvas: the step *)
(* a drawing call belongs to, given the step the previous call was in.     *)
(* RowsFooter .. RowsTableHeader are the page break of the table,          *)
(* DrawFooter .. NotesHeader the page break of the notes.                  *)
(***************************************************************************)
StepAfter(step, op) ==
    CASE step = "Start" /\ op = "title" -> "DrawHeader"
      [] step = "DrawHeader" /\ op \in {"date", "logo"} -> "DrawHeader"
      [] step = "DrawHeader" /\ op = "issuer" -> "DrawPartyFrames"
      [] step = "DrawPartyFrames" /\ op \in {"issuer line", "client", "client line"} ->
             "DrawPartyFrames"
      [] step = "DrawPartyFrames" /\ op = "realization" -> "DrawRealizationBlock"
      [] step = "DrawRealizationBlock" /\ op \in {"subject", "validity", "rule"} ->
             "DrawRealizationBlock"
      [] step \in {"DrawPartyFrames", "DrawRealizationBlock"} /\ op = "table header" ->
             "DrawTableHeader"
      [] step \in {"DrawTableHeader", "EmitRow", "RowsTableHeader"} /\ op = "row" -> "EmitRow"
      [] step \in {"DrawTableHeader", "EmitRow"} /\ op = "rule" -> "DrawTotalsBlock"
      [] step = "EmitRow" /\ op = "footer" -> "RowsFooter"
      [] step = "RowsFooter" /\ op = "showPage" -> "RowsNewPage"
      [] step = "RowsNewPage" /\ op = "title" -> "RowsHeader"
      [] step = "RowsHeader" /\ op \in {"date", "logo"} -> "RowsHeader"
      [] step = "RowsHeader" /\ op = "table header" -> "RowsTableHeader"
      [] step = "DrawTotalsBlock" /\ op \in {"total ht", "total tva", "net"} ->
             "DrawTotalsBlock"
      [] step = "DrawTotalsBlock" /\ op = "notes heading" -> "EmitNotesLine"
      [] step = "DrawTotalsBlock" /\ op = "footer" -> "LastFooter"
      [] step \in {"EmitNotesLine", "NotesHeader"} /\ op = "notes line" -> "EmitNotesLine"
      [] step = "EmitNotesLine" /\ op = "footer" -> "DrawFooter"
      [] step = "DrawFooter" /\ op = "showPage" -> "NotesNewPage"
      [] step = "NotesNewPage" /\ op = "title" -> "NotesHeader"
      [] step = "NotesHeader" /\ op \in {"date", "logo"} -> "NotesHeader"
      [] OTHER -> "out of order"

RECURSIVE StepsRun(_, _)
StepsRun(step, ops) ==
    IF ops = <<>> THEN step ELSE StepsRun(StepAfter(step, Head(ops).op), Tail(ops))

\* C14: the drawing steps of export_pdf follow the order Start, DrawHeader,
\* DrawPartyFrames, optional DrawRealizationBlock, DrawTableHeader, rows,
\* DrawTotalsBlock, notes lines, DrawFooter, End; the totals block is drawn exactly
\* once, after every row and before any notes line; the only re-entries are footer,
\* new page, header, table header between two rows and footer, new page, header
\* before a notes line.
C14_StepOrder ==
    /\ StepsRun("Start", canvas) # "out of order"
    /\ Cardinality(OpsAt("total ht")) <= 1
    /\ \A t \in OpsAt("total ht") :
           /\ \A r \in OpsAt("row") : r < t
           /\ \A n \in OpsAt("notes line") \cup OpsAt("notes heading") : t < n
    /\ Cardinality(OpsAt("issuer")) <= 1
    /\ Cardinality(OpsAt("realization")) <= 1
    /\ Exported =>
           /\ StepsRun("Start", canvas) \in {"LastFooter", "DrawFooter"}
           /\ Cardinality(OpsAt("total ht")) = 1
           /\ Cardinality(OpsAt("row")) = Len(doc.lines)
           /\ Cardinality(OpsAt("notes line")) = Len(notes_lines(doc))
           /\ Cardinality(OpsAt("realization")) = IF has_realization(doc) THEN 1 ELSE 0

\* C14: an exported document with a Realization block, rows on two pages and notes
C14_Witness ==
    /\ Exported
    /\ StepsRun("Start", canvas) = "DrawFooter"
    /\ OpsAt("realization") # {}
    /\ \E r \in OpsAt("row") : canvas[r - 1].op = "table header" /\ PageOf(r) = 2
    /\ OpsAt("notes line") # {}

(***************************************************************************)
(* Page breaks.  The cursor an action started from is y; the calls it      *)
(* recorded are those of canvas' after the Len(canvas) calls of canvas.    *)
(***************************************************************************)
Recorded == SubSeq(canvas', Len(canvas) + 1, Len(canvas'))

OpsOf(calls_) == [k \in 1..Len(calls_) |-> calls_[k].op]

HeaderOpsDrawn == IF Set(doc.issuer.logo_path) /\ logo_loadable
                  THEN <<"title", "date", "logo">> ELSE <<"title", "date">>

\* the height of the first row of a page after the first: top, header, table header
RowsRestart == PageHeight - 50 * Pt - 38 * Pt - 20 * Pt

\* the height of the first notes line of a page after the first: top, header
NotesRestart == PageHeight - 50 * Pt - 38 * Pt

\* C15: export_pdf breaks the page before a row exactly when the cursor is below
\* bottom_margin + 60 (100 points): it then draws the footer of the page, starts a
\* new page, draws the header and the table header again and only then the row, at
\* the top of the new page; otherwise it draws the row alone, at the cursor.  So
\* every table row is drawn at 100 points or above.
C15_RowBreakBelow100 ==
    /\ [](\A k \in OpsAt("row") : canvas[k].y >= 100 * Pt)
    /\ [][row' = row + 1 =>
              IF y < 100 * Pt
              THEN /\ OpsOf(Recorded) = <<"footer", "showPage">> \o HeaderOpsDrawn
                                            \o <<"table header", "row">>
                   /\ page_num' = page_num + 1
                   /\ Recorded[Len(Recorded)].y = RowsRestart
                   /\ y' = RowsRestart - 14 * Pt
              ELSE /\ OpsOf(Recorded) = <<"row">>
                   /\ page_num' = page_num
                   /\ Recorded[1].y = y
                   /\ y' = y - 14 * Pt]_vars

\* C15: a row was drawn at the top of a second page, after a page break, and the
\* row before it was the last one above the guard band of the first page
C15_Witness ==
    \E k \in OpsAt("row") :
        /\ PageOf(k) = 2
        /\ canvas[k].y = RowsRestart
        /\ canvas[k - 1].op = "table header"
        /\ \E j \in OpsAt("row") : PageOf(j) = 1 /\ canvas[j].y - 14 * Pt < 100 * Pt

\* C16: export_pdf breaks the page before a wrapped notes line exactly when the cursor
\* is below bottom_margin + 20 (60 points): it then draws the footer, starts a new
\* page and draws the header, but not the table header, and then the line at the top
\* of the new page; otherwise it draws the line alone, at the cursor.  So the table
\* header is never drawn after the totals block and every notes line is drawn at 60
\* points or above.
C16_NotesBreakBelow60 ==
    /\ [](\A k \in OpsAt("notes line") : canvas[k].y >= 60 * Pt)
    /\ [](\A t \in OpsAt("total ht"), h \in OpsAt("table header") : h < t)
    /\ [][note' = note + 1 =>
              IF y < 60 * Pt
              THEN /\ OpsOf(Recorded) = <<"footer", "showPage">> \o HeaderOpsDrawn
                                            \o <<"notes line">>
                   /\ page_num' = page_num + 1
                   /\ Recorded[Len(Recorded)].y = NotesRestart
                   /\ y' = NotesRestart - 12 * Pt
              ELSE /\ OpsOf(Recorded) = <<"notes line">>
                   /\ page_num' = page_num
                   /\ Recorded[1].y = y
                   /\ y' = y - 12 * Pt]_vars

\* C16: a notes line was drawn at the top of a second page, right after the header,
\* the totals block being on the first page
C16_Witness ==
    \E k \in OpsAt("notes line") :
        /\ PageOf(k) = 2
        /\ canvas[k].y = NotesRestart
        /\ canvas[k - 1].op \in {"date", "logo"}
        /\ \E t \in OpsAt("total ht") : PageOf(t) = 1

(***************************************************************************)
(* The logo.                                                               *)
(***************************************************************************)
NoLogo(calls_) == SelectSeq(calls_, LAMBDA c : c.op # "logo")

LogoSet == Set(doc.issuer.logo_path)

\* what the export of the same document gives when the logo loads, fails, is absent
LogoDrawn == export_pdf(doc, TRUE)

LogoFails == export_pdf(doc, FALSE)

LogoAbsent == export_pdf([doc EXCEPT !.issuer.logo_path = <<>>], FALSE)

\* C17: a logo that cannot be loaded or drawn never aborts export_pdf (the run is
\* always at a step that has a next step, or at its end, and it ends as the function
\* export_pdf says) and changes nothing else: for the same document
\* the cursor at the end, the number of pages and the sequence of all other drawing
\* calls, with their pages and heights, are the same whether the logo is absent, is
\* drawn or fails.
C17_LogoFailureChangesNothingElse ==
    /\ ppc = "rows" => row <= Len(doc.lines)
    /\ ppc = "notes" => note < Len(notes_lines(doc))
    /\ ppc \in {"header", "parties", "realization", "table header", "rows",
                "notes heading", "notes", "footer", "done"}
    /\ Exported =>
           /\ [y |-> y, page_num |-> page_num, canvas |-> canvas]
                  = export_pdf(doc, logo_loadable)
           /\ \A other \in {LogoDrawn, LogoFails, LogoAbsent} :
                  /\ other.y = y
                  /\ other.page_num = page_num
                  /\ NoLogo(other.canvas) = NoLogo(canvas)
           /\ OpsAt("logo") # {} <=> (LogoSet /\ logo_loadable)
           /\ LogoFails.canvas = LogoAbsent.canvas

\* C17: the document of the test, whose logo file does not exist, exported on two
\* pages without a logo; the same document draws its logo on both pages when the
\* file can be loaded
C17_Witness ==
    /\ Exported
    /\ LogoSet
    /\ ~logo_loadable
    /\ OpsAt("logo") = {}
    /\ page_num = 2
    /\ Len(SelectSeq(LogoDrawn.canvas, LAMBDA c : c.op = "logo")) = 2
    /\ Len(doc.lines) = ManyRows

(***************************************************************************)
(* The Realization block and the rows.                                     *)
(***************************************************************************)
RealizationOps == OpsAt("realization") \cup OpsAt("subject") \cup OpsAt("validity")

\* C18: the Realization block is drawn only when the document is a quote and its
\* subject or its validity date is set; for an invoice, or when both are unset, it
\* is not drawn and the cursor is unchanged.
C18_RealizationOnlyForQuote ==
    /\ ppc = "table header" =>
           IF doc.doc_type = "quote" /\ has_realization(doc)
           THEN OpsAt("realization") # {}
           ELSE RealizationOps = {} /\ y = parties_y(doc, header_y(PageHeight - top_margin))
    /\ doc.doc_type = "invoice" => RealizationOps = {}

Rows == SelectSeq(canvas, LAMBDA c : c.op = "row")

\* C19: the order of the lines is preserved: to_dict lists the lines of an exported
\* document in the order of doc.lines, and export_pdf draws each line as one table row, once, in that order,
\* page after page and from the top down within a page: no row is dropped or
\* repeated at a page break.
C19_LinesOrderPreserved ==
    /\ LET rows == Rows
       IN  /\ Len(rows) = row
           /\ \A i \in 1..Len(rows) : rows[i].text = doc.lines[i].description
           /\ \A i \in 1..(Len(rows) - 1) :
                  \/ rows[i + 1].page = rows[i].page /\ rows[i + 1].y < rows[i].y
                  \/ rows[i + 1].page = rows[i].page + 1
           /\ Exported => Len(rows) = Len(doc.lines)
    /\ Exported =>
           LET listed == to_dict(doc).o.lines.a
           IN  /\ Len(listed) = Len(doc.lines)
               /\ \A i \in 1..Len(listed) :
                      /\ listed[i].o.item_key = JStr(doc.lines[i].item_key)
                      /\ listed[i].o.description = JStr(doc.lines[i].description)
                      /\ listed[i].o.quantity = JNum(doc.lines[i].quantity)
                      /\ listed[i].o.unit_price = JNum(doc.lines[i].unit_price)

\* C19: a document of 45 lines exported on two pages: 'Ligne 44' is the last row of
\* the first page and 'Ligne 45' the first row of the second
C19_Witness ==
    /\ Exported
    /\ Len(doc.lines) = 45
    /\ Len(Rows) = 45
    /\ Rows[44].text = "Ligne 44" /\ Rows[44].page = 1
    /\ Rows[45].text = "Ligne 45" /\ Rows[45].page = 2
    /\ to_dict(doc).o.lines.a[45].o.item_key = JStr("k45")

(***************************************************************************)
(* The amounts of the exported record and of the totals block.             *)
(***************************************************************************)
Persisted == to_dict(doc).o

TextOf(op) == canvas[CHOOSE k \in OpsAt(op) : TRUE].text

\* C20: for every exported document, every monetary field of the record to_dict
\* returns is the monetary model's value for the same document: each line's total_ht is that line's total_ht(), and
\* subtotal_ht, total_tva and net_to_pay are subtotal_ht(), total_tva() and
\* net_to_pay(); the totals block of the PDF shows these same three values, and the
\* record is consistent in itself (the subtotal is the sum of its lines' totals, the
\* net amount the subtotal plus the tax).
C20_PersistedAmountsAreRendered ==
    Exported =>
        LET rec == to_dict(doc).o
        IN  /\ \A i \in 1..Len(doc.lines) :
                   rec.lines.a[i].o.total_ht = JNum(total_ht(doc.lines[i]))
            /\ rec.subtotal_ht = JNum(subtotal_ht(doc))
            /\ rec.total_tva = JNum(total_tva(doc))
            /\ rec.net_to_pay = JNum(net_to_pay(doc))
            /\ rec.subtotal_ht.n
                   = SumSeq([i \in 1..Len(doc.lines) |-> rec.lines.a[i].o.total_ht.n])
            /\ rec.net_to_pay.n = rec.subtotal_ht.n + rec.total_tva.n
            /\ TextOf("total ht") = "TOTAL HT: " \o Fmt2(rec.subtotal_ht.n) \o " €"
            /\ TextOf("total tva") = "TOTAL TVA: " \o Fmt2(rec.total_tva.n) \o " €"
            /\ TextOf("net") = "Net à payer: " \o Fmt2(rec.net_to_pay.n) \o " €"

\* C20: the document of 40 lines, with discounts and taxes: 3147.00, 577.85 and
\* 3724.85 in the record and in the totals block
C20_Witness ==
    /\ Exported
    /\ Len(doc.lines) = ManyRows
    /\ Persisted.lines.a[2].o.total_ht = JNum(216 * 100 * Cent)
    /\ Persisted.subtotal_ht = JNum(3147 * 100 * Cent)
    /\ Persisted.total_tva = JNum(57785 * Cent)
    /\ Persisted.net_to_pay = JNum(372485 * Cent)
    /\ TextOf("total ht") = "TOTAL HT: 3147.00 €"
    /\ TextOf("total tva") = "TOTAL TVA: 577.85 €"
    /\ TextOf("net") = "Net à payer: 3724.85 €"

(***************************************************************************)
(* Properties of the JSON export, continued.                               *)
(***************************************************************************)
\* C21: export_json is idempotent: a second call with the same document and path
\* leaves the file as the first call left it; the content is the record of the
\* document, with the document's own date, whatever the file held before (nothing,
\* a record written by hand, a text that is no JSON).
C21_ExportJsonIdempotent ==
    /\ [](pc \in {"exported", "exported twice"} =>
              /\ file = to_dict(doc)
              /\ file.o.date = JStr(isoformat(doc.date_)))
    /\ [][pc' = "exported twice" => file' = file]_vars
    /\ [][(pc = "start" /\ pc' = "exported") =>
              file' = to_dict(doc) /\ doc' = doc]_vars

\* C21: a document with lines exported twice to the same path
C21_Witness ==
    /\ pc = "exported twice"
    /\ Len(doc.lines) = 2
    /\ file = to_dict(doc)
    /\ file.o.date = JStr("2025-01-31")

(***************************************************************************)
(* Properties of generate_document.                                        *)
(***************************************************************************)
OtherType(t) == IF t = "quote" THEN "invoice" ELSE "quote"

\* the counters store s holds before and after a step
CountersOf(s) == load(s).counters

\* C22: generate_document assigns a number only when none is given: with no number
\* it takes the next value of the counter of the document's own type in the store,
\* written 'D-' (quote) or 'F-' (invoice) and the value zero-padded to 4 digits,
\* saves that counter and leaves the counter of the other type as it was; with a
\* number given the document carries that number and no counter changes.
C22_NumberOnlyWhenAbsent ==
    [][\A s \in Stores, t \in DocTypes, number \in GivenNumbers, lines \in GivenLines :
           GenerateDocument(s, t, number, lines) =>
               IF number = <<>>
               THEN /\ doc'.number =
                           << (IF t = "quote" THEN "D-" ELSE "F-")
                                  \o ZeroPad(IntToStr(CountersOf(s)[t] + 1), 4) >>
                    /\ doc'.doc_type = t
                    /\ files'[s] # Absent
                    /\ files'[s].counters[t] = CountersOf(s)[t] + 1
                    /\ files'[s].counters[OtherType(t)] = CountersOf(s)[OtherType(t)]
                    /\ \A o \in Stores \ {s} : files'[o] = files[o]
               ELSE /\ doc'.number = number
                    /\ files' = files
                    /\ default_config' = default_config
                    /\ calls' = calls]_vars

\* C22: after a quote, the first invoice generated without a number on the same
\* store is F-0001, the quote counter staying at 1
C22_Witness ==
    /\ doc.doc_type = "invoice"
    /\ doc.number = <<"F-0001">>
    /\ files["a.json"] # Absent
    /\ files["a.json"].counters = [quote |-> 1, invoice |-> 1]
    /\ files["b.json"] = Absent
    /\ ppc = "done"
    /\ file = to_dict(doc)

(***************************************************************************)
(* Percentages above 100.                                                  *)
(***************************************************************************)
\* the price of a line with its discount applied as given, in the unit of the amounts
AsGiven(li) == li.quantity * li.unit_price * (100 - li.discount_pct)

\* C23 as stated: a discount_pct above 100 is not capped at 100 but applied as given,
\* so the total of the line is quantity * unit_price * (1 - discount_pct / 100), to
\* the cent
C23_AsStated ==
    Computed =>
        \A i \in 1..Len(doc.lines) :
            doc.lines[i].discount_pct > 100 =>
                /\ totals[1].lines[i] - AsGiven(doc.lines[i]) < Cent
                /\ AsGiven(doc.lines[i]) - totals[1].lines[i] < Cent

\* C23: a discount_pct above 100 is capped: the factor 1 - discount_pct / 100 is
\* floored at 0, so the total of the line is 0, what a discount of 100 gives, and
\* never negative; a tax_pct above 100 is not capped: the tax of the line is its
\* total times tax_pct / 100 as given, above the total itself.
C23_DiscountAbove100GivesZero ==
    Computed =>
        /\ \A i \in 1..Len(doc.lines) :
               /\ doc.lines[i].discount_pct > 100 => totals[1].lines[i] = 0
               /\ doc.lines[i].discount_pct = 100 => totals[1].lines[i] = 0
               /\ totals[1].lines[i] >= 0
        /\ (Len(doc.lines) = 1 /\ doc.lines[1].tax_pct > 100) =>
               /\ totals[1].total_tva = (totals[1].lines[1] \div 100) * doc.lines[1].tax_pct
               /\ totals[1].total_tva >= totals[1].lines[1]

\* C23: one line of 2 at 100.00 with a discount of 150 % and a tax of 150 %: total 0
\* and tax 0; and the same with no discount gives a tax of 300.00 on 200.00
C23_Witness ==
    /\ Computed
    /\ Len(doc.lines) = 1
    /\ doc.lines[1].quantity = 20
    /\ doc.lines[1].unit_price = 10000
    /\ doc.lines[1].discount_pct = 150
    /\ doc.lines[1].tax_pct = 150
    /\ totals[1].lines[1] = 0
    /\ totals[1].total_tva = 0
    /\ total_tva(Document("Grid", <<[doc.lines[1] EXCEPT !.discount_pct = 0]>>))
           = 300 * 100 * Cent

\* the keys of a list of items, in order
KeysOf(items) == [i \in 1..Len(items) |-> items[i].key]

\* C24: after a set_company_* setter on a store, get_company() of that store
\* returns the given value for the field that was set, and every other company
\* field, both counters and the item list of that store are what they were.
C24_SetterRoundTripAndFrame ==
    [][\A s \in Stores, field \in CompanyFields :
         \A value \in SetterValues[field] :
           SetCompany(s, field, value) =>
             LET before == load(s)
                 after == load(s)'
             IN  /\ get_company(s)'[field] = value
                 /\ \A g \in CompanyFields \ {field} :
                        after.company[g] = before.company[g]
                 /\ after.counters = before.counters
                 /\ after.items = before.items]_vars

\* C24 happens: a store whose counter, items and SIRET were changed got a new
\* company name
C24_Witness ==
    \E s \in Stores :
        /\ files[s] # Absent
        /\ get_company(s).name = "New Co"
        /\ \/ load(s).counters.quote = 1 /\ Len(list_items(s)) = 3
           \/ load(s).counters.quote = 1 /\ get_company(s).siret # <<>>
           \/ Len(list_items(s)) = 3 /\ get_company(s).siret # <<>>

\* the positions of the items with the key
PositionsOf(items, key) == {i \in 1..Len(items) : items[i].key = key}

\* no two items of the list have the same key
DistinctKeys(items) ==
    \A i, j \in 1..Len(items) : items[i].key = items[j].key => i = j

\* C25: the item keys of every store stay distinct; upsert_item(k, l, p) on an
\* existing key changes the label and the price of that item alone and leaves the
\* length and the order of the list, on a new key it appends one item, and
\* afterwards list_items has exactly one item with key k, carrying l and p.
C25_UpsertKeepsKeysDistinct ==
    /\ [](\A s \in Stores : DistinctKeys(list_items(s)))
    /\ [][\A s \in Stores, key \in ItemKeys, label \in ItemLabels,
            unit_price \in ItemPrices :
          UpsertItem(s, key, label, unit_price) =>
            LET before == list_items(s)
                after == list_items(s)'
                item == [key |-> key, label |-> label, unit_price |-> unit_price]
            IN  /\ IF PositionsOf(before, key) # {}
                   THEN /\ KeysOf(after) = KeysOf(before)
                        /\ \A i \in 1..Len(before) :
                               before[i].key # key => after[i] = before[i]
                   ELSE after = Append(before, item)
                /\ Cardinality(PositionsOf(after, key)) = 1
                /\ \A i \in PositionsOf(after, key) : after[i] = item]_vars

\* C25 happens: a new key was appended and then an existing key updated in
\* place, in the same store
C25_Witness ==
    \E s \in Stores :
        /\ KeysOf(list_items(s)) = <<"service", "product", "extra">>
        /\ list_items(s)[1].label \in ItemLabels
        /\ list_items(s)[3].label \in ItemLabels
        /\ writes = 3

\* C27: a store whose file does not exist loads the original defaults, whatever
\* was done before on this or on another store.
C27_FreshStoreLoadsDefaults ==
    \A s \in Stores : files[s] = Absent => load(s) = DEFAULT_CONFIG

\* the fields of a party that are populated: the name and the four optional ones
PopulatedFields(p) ==
    (IF p.name # "" THEN {"name"} ELSE {})
    \cup {f \in AllFields : p[f] # <<>> /\ p[f][1] # ""}

\* where a column that starts at top ends: 12 points for the heading and 12 per
\* populated field
ColumnCursor(p, top) == top - 12 * Pt - 12 * Pt * Cardinality(PopulatedFields(p))

\* the heights the calls of a kind were drawn at, in order
HeightsOf(calls_, op) ==
    LET sel == SelectSeq(calls_, LAMBDA c : c.op = op)
    IN  [k \in 1..Len(sel) |-> sel[k].y]

\* C26: _draw_parties_frames returns min(issuer cursor, customer cursor) - 10: the
\* two headings are drawn at the same height, the cursor given; each column draws
\* one line per populated field, 12 points apart below its heading; so the column
\* with more populated fields alone decides where the table starts.
C26_PartiesCursor ==
    [][(ppc = "parties" /\ ppc' = "realization") =>
         LET issuer == ColumnCursor(doc.issuer, y)
             customer == ColumnCursor(doc.customer, y)
             more == IF Cardinality(PopulatedFields(doc.issuer))
                          >= Cardinality(PopulatedFields(doc.customer))
                     THEN doc.issuer ELSE doc.customer
         IN  /\ y' = (IF issuer < customer THEN issuer ELSE customer) - 10 * Pt
             /\ y' = ColumnCursor(more, y) - 10 * Pt
             /\ HeightsOf(Recorded, "issuer") = <<y>>
             /\ HeightsOf(Recorded, "client") = <<y>>
             /\ HeightsOf(Recorded, "issuer line") =
                    [i \in 1..Cardinality(PopulatedFields(doc.issuer)) |-> y - 12 * Pt * i]
             /\ HeightsOf(Recorded, "client line") =
                    [i \in 1..Cardinality(PopulatedFields(doc.customer)) |-> y - 12 * Pt * i]]_vars

\* C26 happens: the frames were drawn for a customer with more populated fields
\* than the issuer
C26_Witness ==
    /\ ppc = "realization"
    /\ Cardinality(PopulatedFields(doc.customer)) > Cardinality(PopulatedFields(doc.issuer))
    /\ Cardinality(PopulatedFields(doc.issuer)) > 0
    /\ OpsAt("client line") # {}

\* the drawing calls that are content of the document, not header or footer
ContentOps == {"row", "total ht", "total tva", "net", "notes heading", "notes line"}

\* C28: every table row, each of the three totals lines, the 'Notes:' heading and
\* every notes line is drawn at bottom_margin (40 points) or above, whatever the
\* number of rows and the height of the header.
C28_ContentAboveBottomMargin ==
    \A k \in 1..Len(canvas) : canvas[k].op \in ContentOps => canvas[k].y >= bottom_margin

\* C29: the title of every header drawn is 'DEVIS' and the number for a quote,
\* 'FACTURE' and the number for an invoice.
C29_TitleFollowsDocType ==
    \A k \in OpsAt("title") :
        canvas[k].text =
            (IF doc.doc_type = "quote" THEN "DEVIS" ELSE "FACTURE")
            \o " " \o (IF doc.number # <<>> THEN doc.number[1] ELSE "")

\* the rows and notes lines drawn so far
LinesDrawn == OpsAt("row") \cup OpsAt("notes line")

\* C30: export_pdf terminates, and no page it produces is empty: the first row is
\* drawn on page 1, every page break is followed on the new page by a row or a
\* notes line before the next break, and so the pages number at most 1 + rows +
\* wrapped notes lines.
C30_TerminatesWithoutEmptyPage ==
    /\ <>(ppc = "done")
    /\ [](LET breaks == OpsAt("showPage")
          IN  /\ \A k \in OpsAt("row"), b \in breaks :
                     (\A j \in OpsAt("row") : k <= j) => k < b
              /\ \A b \in breaks :
                     \E k \in LinesDrawn :
                         /\ b < k
                         /\ \A b2 \in breaks : b < b2 => k < b2
              /\ page_num = 1 + Cardinality(breaks)
              /\ page_num <= 1 + row + note
              /\ row <= Len(doc.lines)
              /\ note <= Len(notes_lines(doc)))

\* C30 happens: an export ended on a second page that a notes line opened, all the
\* rows being on the first
C30_Witness ==
    /\ ppc = "done"
    /\ page_num = 2
    /\ row = Len(doc.lines)
    /\ row >= ManyRows
    /\ note = Len(notes_lines(doc))
    /\ \A k \in OpsAt("row") : PageOf(k) = 1
    /\ \E k \in OpsAt("notes line") : PageOf(k) = 2

=============================================================================
